---------------------------- MODULE Spec2Model ----------------------------
(***************************************************************************)
(* The in-page provider bridge of the SealVault wallet core                *)
(* (core/src/in_page_provider.rs) and the in-memory keychain               *)
(* (core/src/encryption/keychains/in_memory_keychain.rs).                  *)
(*                                                                         *)
(* A request is handled in steps.  Each step is one action and holds at    *)
(* most one persistence transaction; steps of concurrent requests          *)
(* interleave.  Handlers whose later reads cannot be changed by another    *)
(* request (rows that are never updated or deleted) are folded into the    *)
(* dispatching step.                                                       *)
(***************************************************************************)
EXTENDS Integers, Sequences, FiniteSets, TLC

(***************************************************************************)
(* Bounds of the model.                                                    *)
(***************************************************************************)
\* Number of requests handled in one behaviour: of requests received one
\* after the other, and of requests received while others are in progress.
MaxRequests == 2
MaxConcurrentRequests == 2

\* config::MAX_JSONRPC_REQUEST_SIZE_BYTES, scaled down: the sizes of the raw
\* requests are chosen around it.
MAX_JSONRPC_REQUEST_SIZE_BYTES == 3

\* The greatest number that is converted as a chain id.
MaxChainNumber == 140

\* Number of keychain calls in one behaviour: of calls made one after the
\* other, and of calls made while others are in progress.
MaxKeychainCalls == 4
MaxConcurrentKeychainCalls == 5

\* Request slots: the requests that can be in progress at the same time.
Slots == {1, 2}

Accounts == {"a1", "a2"}

\* Page urls of the request contexts and the dapp identifier (registrable
\* domain) each one normalises to.
Urls == {"https://example.com", "https://app.example.com", "https://other.org"}

\* The dapps that are added to an account on another device.
OtherDeviceDapps == {<<"a2", "https://other.org">>}

(***************************************************************************)
(* Strings that are parsed or produced are sequences of characters.        *)
(***************************************************************************)
HexDigits == <<"0","1","2","3","4","5","6","7","8","9","a","b","c","d","e","f">>

\* Value of one hexadecimal digit, -1 for any other character.
HexVal(c) ==
    IF \E i \in 1..16 : HexDigits[i] = c
    THEN (CHOOSE i \in 1..16 : HexDigits[i] = c) - 1
    ELSE CASE c = "A" -> 10 [] c = "B" -> 11 [] c = "C" -> 12
           [] c = "D" -> 13 [] c = "E" -> 14 [] c = "F" -> 15
           [] OTHER -> -1

RECURSIVE HexNum(_)
HexNum(s) ==
    IF Len(s) = 0 THEN 0
    ELSE HexNum(SubSeq(s, 1, Len(s) - 1)) * 16 + HexVal(s[Len(s)])

RECURSIVE HexStr(_)
\* Lower-case hexadecimal digits of n without leading zeros ("0" for 0).
HexStr(n) ==
    IF n < 16 THEN <<HexDigits[n + 1]>>
    ELSE HexStr(n \div 16) \o <<HexDigits[(n % 16) + 1]>>

RECURSIVE DecStr(_)
DecStr(n) ==
    IF n < 10 THEN <<HexDigits[n + 1]>>
    ELSE DecStr(n \div 10) \o <<HexDigits[(n % 10) + 1]>>

(***************************************************************************)
(* Chain identity (crate::protocols::eth::ChainId).                        *)
(***************************************************************************)
EthMainnet == 1
EthGoerli == 5
PolygonMainnet == 137

SupportedChains == {EthMainnet, EthGoerli, PolygonMainnet}

default_dapp_chain == PolygonMainnet

network_version(chain_id) == DecStr(chain_id)

\* FromPrimitive::from_u64 of the chain enumeration.
from_u64(n) ==
    IF n \in SupportedChains THEN [ok |-> TRUE, chain_id |-> n]
    ELSE [ok |-> FALSE, chain_id |-> 0]

(***************************************************************************)
(* Error codes.                                                            *)
(***************************************************************************)
InvalidParams == -32602
UserRejected == 4001
Unauthorized == 4100
UnsupportedMethod == 4200

\* The variants of InPageErrorCode.
StandardErrorCodes ==
    {"ParseError", "InvalidRequest", "MethodNotFound", "InvalidParams",
     "InternalError"}

InPageErrorCode ==
    StandardErrorCodes \cup
    {"UserRejected", "Unauthorized", "UnsupportedMethod", "Disconnected",
     "ChainDisconnected"}

\* The discriminant of a variant: the first five have none declared and
\* count from zero.
discriminant(code) ==
    CASE code = "ParseError" -> 0
      [] code = "InvalidRequest" -> 1
      [] code = "MethodNotFound" -> 2
      [] code = "InvalidParams" -> 3
      [] code = "InternalError" -> 4
      [] code = "UserRejected" -> UserRejected
      [] code = "Unauthorized" -> Unauthorized
      [] code = "UnsupportedMethod" -> UnsupportedMethod
      [] code = "Disconnected" -> 4900
      [] code = "ChainDisconnected" -> 4901

\* The values of an i32: -2^31 .. 2^31 - 1.
I32 == (0 - 2147483647 - 1)..2147483647

\* InPageErrorCode::to_i32: ToPrimitive::to_i32 is None when the
\* discriminant is not an i32, and expect panics.
to_i32(code) ==
    IF discriminant(code) \in I32
    THEN [ok |-> TRUE, val |-> discriminant(code)]
    ELSE [ok |-> FALSE, val |-> 0]

\* From<InPageErrorCode> for ErrorCode that makes a ServerError of every
\* variant.
ErrorCode_from_always_server_error(code) ==
    [variant |-> "ServerError", server |-> to_i32(code).val]

\* From<InPageErrorCode> for ErrorCode
ErrorCode_from(code) ==
    IF code \in StandardErrorCodes
    THEN [variant |-> code, server |-> 0]
    ELSE [variant |-> "ServerError", server |-> to_i32(code).val]

\* ErrorCode::code of jsonrpsee
ErrorCode_code(error_code) ==
    CASE error_code.variant = "ParseError" -> -32700
      [] error_code.variant = "InvalidRequest" -> -32600
      [] error_code.variant = "MethodNotFound" -> -32601
      [] error_code.variant = "InvalidParams" -> InvalidParams
      [] error_code.variant = "InternalError" -> -32603
      [] error_code.variant = "ServerError" -> error_code.server

\* Error::JsonRpc, Error::Fatal, Error::Retriable and a successful value.
JsonRpcErr(code) == [kind |-> "jsonrpc", code |-> code, value |-> <<>>]
FatalErr == [kind |-> "fatal", code |-> 0, value |-> <<>>]
RetriableErr == [kind |-> "retriable", code |-> 0, value |-> <<>>]
OkVal(v) == [kind |-> "ok", code |-> 0, value |-> v]
NoResult == [kind |-> "none", code |-> 0, value |-> <<>>]


(***************************************************************************)
(* Persistence (crate::db::models).  The database is one record; a         *)
(* transaction body maps a database to [ok, db, val].                      *)
(*   dapps      the dapp rows (deterministic ids)                          *)
(*   keys       asymmetric keys: wallet keys and one key per (account,     *)
(*              dapp)                                                      *)
(*   addresses  one row per (key, chain)                                   *)
(*   chains     the chain rows created so far                              *)
(*   sessions   local dapp sessions                                        *)
(***************************************************************************)
VARIABLES db, req, last, nreq, transfers, conv, data, call, ncall

vars == <<db, req, last, nreq, transfers, conv, data, call, ncall>>

WalletDapp == "wallet"

\* Dapp::dapp_identifier: the registrable domain of the page url.
dapp_identifier(url) ==
    CASE url = "https://example.com" -> "example.com"
      [] url = "https://app.example.com" -> "example.com"
      [] url = "https://other.org" -> "other.org"

TxOk(d, v) == [ok |-> TRUE, db |-> d, val |-> v]
TxErr(d) == [ok |-> FALSE, db |-> d, val |-> <<>>]

\* ConnectionPool::deferred_transaction: the work of a failed body is rolled
\* back.
deferred_transaction(before, res) ==
    IF res.ok THEN res ELSE TxErr(before)

\* The checksum address string of a key, and an address argument, are
\* strings; Address::from_str decodes them to the 20 bytes (here: the key
\* they belong to), ignoring the case of the hexadecimal digits.
AddressString(key) == [bytes |-> key, form |-> "checksum"]
Address_from_str(s) ==
    IF s.form \in {"checksum", "lower"} THEN [ok |-> TRUE, bytes |-> s.bytes]
    ELSE [ok |-> FALSE, bytes |-> <<>>]

NoSession ==
    [some |-> FALSE, id |-> <<>>, account_id |-> "", dapp_id |-> "",
     address_id |-> <<>>, chain_id |-> 0, address |-> AddressString(<<>>)]

\* The LocalDappSession struct of a session row (joined with its address).
LocalDappSession(d, s) ==
    LET a == CHOOSE a \in d.addresses : a.id = s.address_id
    IN [some |-> TRUE, id |-> s.id, account_id |-> s.account,
        dapp_id |-> s.dapp, address_id |-> s.address_id,
        chain_id |-> a.chain, address |-> AddressString(a.key)]

SessionsOf(d, account_id, dapp_id) ==
    {s \in d.sessions : s.account = account_id /\ s.dapp = dapp_id}

fetch_active_account_id(d) == d.active_account

\* Dapp::fetch_id_for_account: the dapp has been added to the account.
fetch_id_for_account(d, url, account_id) ==
    LET id == dapp_identifier(url)
    IN IF id \in d.dapps
          /\ \E k \in d.keys : k.account = account_id /\ k.dapp = id
       THEN [some |-> TRUE, id |-> id]
       ELSE [some |-> FALSE, id |-> ""]

\* Dapp::create_if_not_exists
create_if_not_exists(d, url) ==
    LET id == dapp_identifier(url)
    IN TxOk([d EXCEPT !.dapps = @ \cup {id}], id)

\* Chain::fetch_or_create_eth_chain_id
fetch_or_create_eth_chain_id(d, chain_id) ==
    TxOk([d EXCEPT !.chains = @ \cup {chain_id}], chain_id)

\* Row ids.  A key is identified by its account and dapp, an address by its
\* key and chain, a session by its account and dapp, each with the number
\* of the row among the rows of the same owner.
KeyId(account_id, dapp_id) == <<account_id, dapp_id>>
AddressId(key, chain_id, n) == <<key, chain_id, n>>
SessionId(account_id, dapp_id, n) == <<account_id, dapp_id, n>>

\* Address::fetch_or_create_for_eth_chain: at most one address per
\* (key, chain).
fetch_or_create_for_eth_chain(d, key, chain_id) ==
    IF \E a \in d.addresses : a.key = key /\ a.chain = chain_id
    THEN TxOk(d, (CHOOSE a \in d.addresses :
                    a.key = key /\ a.chain = chain_id).id)
    ELSE LET id == AddressId(key, chain_id, 1)
         IN TxOk([d EXCEPT !.addresses =
                     @ \cup {[id |-> id, key |-> key, chain |-> chain_id]}],
                 id)

\* Address::create_eth_key_and_address: a new key for (account, dapp) with its
\* address on the chain.  It fails when the key-encryption key cannot be read
\* from the keychain and when the account already has a key for the dapp.
create_eth_key_and_address(d, keychain_ok, account_id, chain_id, dapp_id) ==
    IF ~keychain_ok
       \/ \E k \in d.keys : k.account = account_id /\ k.dapp = dapp_id
    THEN TxErr(d)
    ELSE LET key == KeyId(account_id, dapp_id)
             d1 == [d EXCEPT !.keys = @ \cup
                       {[id |-> key, account |-> account_id,
                         dapp |-> dapp_id]}]
             c == fetch_or_create_eth_chain_id(d1, chain_id)
         IN fetch_or_create_for_eth_chain(c.db, key, chain_id)

\* LocalDappSession::create_eth_session: a duplicate create is an error.
create_eth_session(d, dapp_id, account_id, chain_id, by) ==
    IF SessionsOf(d, account_id, dapp_id) # {}
       \/ ~\E k \in d.keys : k.account = account_id /\ k.dapp = dapp_id
    THEN TxErr(d)
    ELSE LET key == (CHOOSE k \in d.keys :
                        k.account = account_id /\ k.dapp = dapp_id).id
             c == fetch_or_create_eth_chain_id(d, chain_id)
             a == fetch_or_create_for_eth_chain(c.db, key, chain_id)
             s == [id |-> SessionId(account_id, dapp_id, 1),
                   account |-> account_id, dapp |-> dapp_id,
                   address_id |-> a.val, last_used_at |-> 0,
                   created_by |-> by]
             d2 == [a.db EXCEPT !.sessions = @ \cup {s}]
         IN TxOk(d2, LocalDappSession(d2, s))

\* LocalDappSession::create_eth_session_if_not_exists (default dapp chain).
create_eth_session_if_not_exists(d, dapp_id, account_id) ==
    IF SessionsOf(d, account_id, dapp_id) # {}
    THEN TxOk(d, LocalDappSession(d,
                    CHOOSE s \in SessionsOf(d, account_id, dapp_id) : TRUE))
    ELSE create_eth_session(d, dapp_id, account_id, default_dapp_chain,
                            "fetch_session_for_approved_dapp")

\* Address::fetch_key_id
fetch_key_id(d, address_id) ==
    (CHOOSE a \in d.addresses : a.id = address_id).key

\* LocalDappSession::update_session_address
update_session_address(d, session, new_address_id) ==
    TxOk([d EXCEPT !.sessions =
             {IF s.id = session.id
              THEN [s EXCEPT !.address_id = new_address_id] ELSE s
              : s \in @}], <<>>)

\* LocalDappSession::update_last_used_at
update_last_used_at(d, session, now) ==
    [d EXCEPT !.sessions =
        {IF s.id = session.id THEN [s EXCEPT !.last_used_at = now] ELSE s
         : s \in @}]

\* Address::fetch_eth_wallet_id
fetch_eth_wallet_id(d, account_id, chain_id) ==
    LET W == {a \in d.addresses : a.chain = chain_id
                /\ \E k \in d.keys : k.id = a.key /\ k.account = account_id
                                     /\ k.dapp = WalletDapp}
    IN IF W = {} THEN TxErr(d) ELSE TxOk(d, (CHOOSE a \in W : TRUE).id)

\* Address::fetch_eth_signing_key: the key of the address, decrypted with
\* the key-encryption key read from the keychain.
Address_fetch_eth_signing_key(d, keychain_ok, address_id) ==
    IF keychain_ok /\ \E a \in d.addresses : a.id = address_id
    THEN LET a == CHOOSE a \in d.addresses : a.id = address_id
         IN TxOk(d, [key |-> a.key, chain_id |-> a.chain])
    ELSE TxErr(d)


(***************************************************************************)
(* Parsing of request parameters.                                          *)
(***************************************************************************)
Ok(v) == [ok |-> TRUE, val |-> v, err |-> NoResult]
Err(e) == [ok |-> FALSE, val |-> <<>>, err |-> e]

strip_0x_hex_prefix(s) ==
    IF Len(s) >= 2 /\ s[1] = "0" /\ s[2] = "x"
    THEN Ok(SubSeq(s, 3, Len(s)))
    ELSE Err(JsonRpcErr(InvalidParams))

\* hex::decode: an even number of hexadecimal digits, to bytes.
decode_0x_hex_prefix(s) ==
    LET p == strip_0x_hex_prefix(s)
    IN IF ~p.ok THEN p
       ELSE IF Len(p.val) % 2 = 0
               /\ \A i \in 1..Len(p.val) : HexVal(p.val[i]) >= 0
            THEN Ok([i \in 1..(Len(p.val) \div 2) |->
                       HexVal(p.val[2 * i - 1]) * 16 + HexVal(p.val[2 * i])])
            ELSE Err(JsonRpcErr(InvalidParams))

\* Hexadecimal digits a U64 can hold.
U64HexDigits == 16

\* U64::from_str_radix(_, 16)
U64_from_str_radix(s) ==
    IF Len(s) <= U64HexDigits /\ \A i \in 1..Len(s) : HexVal(s[i]) >= 0
    THEN Ok(HexNum(s))
    ELSE Err(JsonRpcErr(InvalidParams))

\* parse_0x_chain_id that takes every U64 for a chain.
parse_0x_chain_id_any_u64(hex_chain_id) ==
    LET p == strip_0x_hex_prefix(hex_chain_id)
        n == U64_from_str_radix(p.val)
    IN IF ~p.ok THEN p
       ELSE IF ~n.ok THEN n
       ELSE Ok(n.val)

\* No conversion yet.
NoConv == [kind |-> "none"]

parse_0x_chain_id(hex_chain_id) ==
    LET p == strip_0x_hex_prefix(hex_chain_id)
        n == U64_from_str_radix(p.val)
        c == from_u64(n.val)
    IN IF ~p.ok THEN p
       ELSE IF ~n.ok THEN n
       ELSE IF ~c.ok THEN Err(JsonRpcErr(InvalidParams))
       ELSE Ok(c.chain_id)

\* chain_id_to_hex_str_json that writes the decimal digits.
chain_id_to_decimal_str_json(chain_id) == <<"0", "x">> \o DecStr(chain_id)

\* to_value of a U64: "0x" and the hexadecimal digits.
chain_id_to_hex_str_json(chain_id) == <<"0", "x">> \o HexStr(chain_id)

PROXIED_RPC_METHODS ==
    {"net_listening", "net_peerCount", "net_version", "eth_blockNumber",
     "eth_call", "eth_chainId", "eth_estimateGas", "eth_gasPrice",
     "eth_getBalance", "eth_getBlockByHash", "eth_getBlockByNumber",
     "eth_getBlockTransactionCountByHash",
     "eth_getBlockTransactionCountByNumber", "eth_getCode",
     "eth_getFilterChanges", "eth_getFilterLogs",
     "eth_getRawTransactionByHash",
     "eth_getRawTransactionByBlockHashAndIndex",
     "eth_getRawTransactionByBlockNumberAndIndex", "eth_getLogs",
     "eth_getStorageAt", "eth_getTransactionByBlockHashAndIndex",
     "eth_getTransactionByBlockNumberAndIndex", "eth_getTransactionByHash",
     "eth_getTransactionCount", "eth_getTransactionReceipt",
     "eth_getUncleByBlockHashAndIndex", "eth_getUncleByBlockNumberAndIndex",
     "eth_getUncleCountByBlockHash", "eth_getUncleCountByBlockNumber",
     "eth_getProof", "eth_newBlockFilter", "eth_newFilter",
     "eth_newPendingTransactionFilter", "eth_protocolVersion",
     "eth_sendRawTransaction", "eth_syncing", "eth_uninstallFilter"}

(***************************************************************************)
(* Requests.                                                               *)
(***************************************************************************)
BootstrapMethods == {"eth_requestAccounts", "eth_accounts"}

\* The methods dispatch matches by name.
HandledMethods ==
    {"eth_chainId", "eth_sendTransaction", "personal_sign",
     "wallet_addEthereumChain", "wallet_switchEthereumChain",
     "web3_clientVersion", "web3_sha3"}

\* Method names of the requests of the model: the bootstrap and handled
\* methods, two of the allow-list and two outside it.
Methods ==
    BootstrapMethods \cup HandledMethods
        \cup {"eth_call", "eth_getBalance", "eth_coinbase", "eth_sign"}

NoNonce == [some |-> FALSE, value |-> 0]
SomeNonce(n) == [some |-> TRUE, value |-> n]

\* A parameter that is absent or does not deserialize is "bad".
NoChain == [ok |-> FALSE, chain_id |-> <<>>]
NoTx == [ok |-> FALSE, nonce |-> NoNonce, to |-> "", value |-> 0]
NoMessage == [ok |-> FALSE, text |-> <<>>]
NoAddress == [bytes |-> <<>>, form |-> "invalid"]
NoParams ==
    [chain |-> NoChain, tx |-> NoTx, message |-> NoMessage,
     address |-> NoAddress, password |-> "absent"]

ChainIdStrings ==
    {<<"0", "x", "1">>, <<"0", "x", "8", "9">>, <<"0", "x", "0", "5">>,
     <<"0", "x", "2">>, <<"8", "9">>, <<"0", "x", "g">>,
     <<"0", "x", "0", "0", "0", "0", "0", "0", "0", "0", "0", "0", "0", "0",
       "0", "0", "0", "8", "9">>}

ChainParams == {NoChain} \cup {[ok |-> TRUE, chain_id |-> c] : c \in ChainIdStrings}

TxParams ==
    {NoTx} \cup
    [ok : {TRUE}, nonce : {NoNonce, SomeNonce(0), SomeNonce(7)},
     to : {"0xA", "0xB"}, value : {1}]

MessageParams ==
    {NoMessage} \cup
    {[ok |-> TRUE, text |-> t] :
        t \in {<<"0", "x", "a", "B">>, <<"a", "b">>, <<"0", "x", "a">>}}

\* The address a page names in personal_sign: none that parses, the address
\* of a dapp key in two spellings, and the address of another key.
AddressParams ==
    {NoAddress,
     [bytes |-> KeyId("a1", "example.com"), form |-> "checksum"],
     [bytes |-> KeyId("a1", "example.com"), form |-> "lower"],
     [bytes |-> KeyId("a2", "example.com"), form |-> "checksum"]}

PasswordParams == {"absent", "bad"}

ParamsFor(method) ==
    CASE method \in {"wallet_addEthereumChain", "wallet_switchEthereumChain"} ->
            {[NoParams EXCEPT !.chain = c] : c \in ChainParams}
      [] method = "eth_sendTransaction" ->
            {[NoParams EXCEPT !.tx = t] : t \in TxParams}
      [] method = "personal_sign" ->
            {[NoParams EXCEPT !.message = m, !.address = a] :
                m \in MessageParams, a \in AddressParams}
            \cup
            {[NoParams EXCEPT !.message = [ok |-> TRUE,
                                           text |-> <<"0", "x", "a", "B">>],
                              !.address = a, !.password = p] :
                a \in AddressParams, p \in PasswordParams}
      [] method = "web3_sha3" ->
            {[NoParams EXCEPT !.message = m] : m \in MessageParams}
      [] OTHER -> {NoParams}

\* Whether the keychain read and the remote call of a request succeed: both
\* outcomes for the methods that read a signing key or call a provider.
KeychainOutcomes(method) ==
    IF method \in {"eth_sendTransaction", "personal_sign"} THEN BOOLEAN
    ELSE {TRUE}

RemoteOutcomes(method) ==
    IF method \in {"eth_sendTransaction"} \cup
                  (PROXIED_RPC_METHODS \ HandledMethods)
    THEN BOOLEAN ELSE {TRUE}

ConcurrentUrls == {"https://app.example.com", "https://other.org"}

ConcurrentMethods ==
    {"eth_requestAccounts", "wallet_switchEthereumChain", "eth_chainId"}

ConcurrentParamsFor(method) ==
    IF method = "wallet_switchEthereumChain"
    THEN {[NoParams EXCEPT !.chain = [ok |-> TRUE, chain_id |-> c]] :
             c \in {<<"0", "x", "1">>, <<"0", "x", "2">>}}
    ELSE {NoParams}

Ev(name, arg) == [ev |-> name, arg |-> arg]

Has(trace, name) == \E i \in 1..Len(trace) : trace[i].ev = name

NoPre == [account |-> "", session_row |-> FALSE, dapp_added |-> FALSE]

\* A raw request: its length in bytes and whether it deserializes to a
\* JSON-RPC request.
NoRaw == [size |-> 0, parses |-> FALSE]

\* Raw requests that are rejected before dispatch: too long, not JSON-RPC,
\* or both.
InvalidRaws ==
    {[size |-> MAX_JSONRPC_REQUEST_SIZE_BYTES + 1, parses |-> TRUE],
     [size |-> MAX_JSONRPC_REQUEST_SIZE_BYTES + 1, parses |-> FALSE],
     [size |-> MAX_JSONRPC_REQUEST_SIZE_BYTES, parses |-> FALSE],
     [size |-> 1, parses |-> FALSE]}

\* The method of a raw request that is never deserialized.
Unparsed == ""

\* The raw requests of a method: short ones, and for eth_chainId also one of
\* exactly the greatest length.
RawsFor(method) ==
    CASE method = Unparsed -> InvalidRaws
      [] method = "eth_chainId" ->
            {[size |-> 1, parses |-> TRUE],
             [size |-> MAX_JSONRPC_REQUEST_SIZE_BYTES, parses |-> TRUE]}
      [] OTHER -> {[size |-> 1, parses |-> TRUE]}

\* What in_page_request has returned: nothing yet.
NoResponse == [ok |-> FALSE, val |-> <<>>, err |-> NoResult]

IdleReq ==
    [pc |-> "idle", id |-> 0, url |-> "", method |-> "", params |-> NoParams,
     session |-> NoSession, pre |-> NoPre, approval |-> "",
     new_chain_id |-> 0, result |-> NoResult, trace |-> <<>>,
     raw |-> NoRaw, parse |-> "none", response |-> NoResponse,
     held |-> <<>>]


(***************************************************************************)
(* InPageProvider.  A handler maps the request record to the record of     *)
(* the request after the handler's step: its next position (pc), its       *)
(* result when it is done and the effects it had (trace).                  *)
(***************************************************************************)
\* invalid_raw_request
invalid_raw_request == RetriableErr

\* hex::encode of the bytes of the response.
hex_encode(response) == [encoding |-> "hex", bytes |-> response]

\* raw_json_rpc_request without the match on the result of dispatch: every
\* error of a handler is returned as an error of the call.
raw_json_rpc_request_errors_escape(id, result) ==
    IF result.kind = "ok"
    THEN Ok([id |-> id, result |-> result.value, error |-> NoResult])
    ELSE Err(result)

\* raw_json_rpc_request that answers every error of a handler with an error
\* response.
raw_json_rpc_request_wrapping_all(id, result) ==
    IF result.kind = "ok"
    THEN Ok([id |-> id, result |-> result.value, error |-> NoResult])
    ELSE Ok([id |-> id, result |-> <<>>, error |-> result])

\* raw_json_rpc_request, the match on the result of dispatch: a value and
\* an Error::JsonRpc become a MethodResponse with the id of the request,
\* any other error is returned as it is.
raw_json_rpc_request(id, result) ==
    CASE result.kind = "ok" ->
            Ok([id |-> id, result |-> result.value, error |-> NoResult])
      [] result.kind = "jsonrpc" ->
            Ok([id |-> id, result |-> <<>>, error |-> result])
      [] OTHER -> Err(result)

\* in_page_request: the response is passed on as hexadecimal bytes.
in_page_request(id, result) ==
    LET response == raw_json_rpc_request(id, result)
    IN IF response.ok THEN Ok(hex_encode(response.val)) ELSE response

\* The size check that also rejects a request of exactly the greatest
\* length.
check_raw_request_rejecting_ceiling(raw) ==
    IF raw.size >= MAX_JSONRPC_REQUEST_SIZE_BYTES
    THEN [ok |-> FALSE, parse |-> "none", err |-> invalid_raw_request]
    ELSE IF ~raw.parses
    THEN [ok |-> FALSE, parse |-> "failed", err |-> invalid_raw_request]
    ELSE [ok |-> TRUE, parse |-> "ok", err |-> NoResult]

\* raw_json_rpc_request up to dispatch: the size check, then the
\* deserialization of the request.
check_raw_request(raw) ==
    IF raw.size > MAX_JSONRPC_REQUEST_SIZE_BYTES
    THEN [ok |-> FALSE, parse |-> "none", err |-> invalid_raw_request]
    ELSE IF ~raw.parses
    THEN [ok |-> FALSE, parse |-> "failed", err |-> invalid_raw_request]
    ELSE [ok |-> TRUE, parse |-> "ok", err |-> NoResult]

Done(rec, result, events) ==
    [rec EXCEPT !.pc = "done", !.result = result, !.trace = @ \o events,
                !.response = in_page_request(rec.id, result)]

Goto(rec, pc, events) == [rec EXCEPT !.pc = pc, !.trace = @ \o events]

\* InPageProvider::notify: one call of the host's notify callback.
\* The variants of ProviderEvent, by name.
ProviderEvent_Connect == <<"C", "o", "n", "n", "e", "c", "t">>
ProviderEvent_ChainChanged ==
    <<"C", "h", "a", "i", "n", "C", "h", "a", "n", "g", "e", "d">>
ProviderEvent_AccountsChanged ==
    <<"A", "c", "c", "o", "u", "n", "t", "s", "C", "h", "a", "n", "g", "e", "d">>
ProviderEvent_NetworkChanged ==
    <<"N", "e", "t", "w", "o", "r", "k", "C", "h", "a", "n", "g", "e", "d">>
ProviderEvent_SealVaultConnect ==
    <<"S", "e", "a", "l", "V", "a", "u", "l", "t", "C", "o", "n", "n", "e", "c", "t">>

ProviderEvent ==
    {ProviderEvent_Connect, ProviderEvent_ChainChanged,
     ProviderEvent_AccountsChanged, ProviderEvent_NetworkChanged,
     ProviderEvent_SealVaultConnect}

UpperCase ==
    <<"A", "B", "C", "D", "E", "F", "G", "H", "I", "J", "K", "L", "M",
      "N", "O", "P", "Q", "R", "S", "T", "U", "V", "W", "X", "Y", "Z">>

LowerCase ==
    <<"a", "b", "c", "d", "e", "f", "g", "h", "i", "j", "k", "l", "m",
      "n", "o", "p", "q", "r", "s", "t", "u", "v", "w", "x", "y", "z">>

to_ascii_lowercase(ch) ==
    IF \E i \in 1..Len(UpperCase) : UpperCase[i] = ch
    THEN LowerCase[CHOOSE i \in 1..Len(UpperCase) : UpperCase[i] = ch]
    ELSE ch

\* Serialization of a variant that keeps the name of the variant.
serialize_provider_event_as_named(event) == event

\* #[serde(rename_all = "camelCase")] on ProviderEvent: the name of the
\* variant with its first character in lower case.
serialize_provider_event(event) ==
    <<to_ascii_lowercase(event[1])>> \o Tail(event)

notify(event, payload) ==
    Ev("notify", [event |-> serialize_provider_event(event), data |-> payload])

notify_connect(chain_id, selected_address) ==
    <<notify(ProviderEvent_SealVaultConnect,
             [chain_id |-> chain_id_to_hex_str_json(chain_id),
              network_version |-> network_version(chain_id),
              selected_address |-> selected_address])>>

\* notify_chain_changed that emits networkChanged first.
notify_chain_changed_network_first(chain_id) ==
    <<notify(ProviderEvent_NetworkChanged, network_version(chain_id)),
      notify(ProviderEvent_ChainChanged, chain_id_to_hex_str_json(chain_id))>>

notify_chain_changed(chain_id) ==
    <<notify(ProviderEvent_ChainChanged, chain_id_to_hex_str_json(chain_id)),
      notify(ProviderEvent_NetworkChanged, network_version(chain_id))>>

fetch_session_for_approved_dapp(d, url) ==
    deferred_transaction(d,
        LET account_id == fetch_active_account_id(d)
            maybe_dapp_id == fetch_id_for_account(d, url, account_id)
        IN IF maybe_dapp_id.some
           THEN create_eth_session_if_not_exists(d, maybe_dapp_id.id,
                                                 account_id)
           ELSE TxOk(d, NoSession))

fetch_eth_signing_key(d, keychain_ok, session) ==
    deferred_transaction(d,
        Address_fetch_eth_signing_key(d, keychain_ok, session.address_id))

\* proxy_method that forwards every method, on the allow-list or not.
proxy_method_without_allow_list(rec, remote_ok) ==
    Done(rec,
         IF remote_ok THEN OkVal(<<"remote", rec.method>>) ELSE RetriableErr,
         <<Ev("proxy_rpc_request",
              [chain_id |-> rec.session.chain_id, method |-> rec.method])>>)

proxy_method(rec, remote_ok) ==
    IF rec.method \notin PROXIED_RPC_METHODS
    THEN Done(rec, JsonRpcErr(UnsupportedMethod), <<>>)
    ELSE Done(rec,
              IF remote_ok THEN OkVal(<<"remote", rec.method>>)
              ELSE RetriableErr,
              <<Ev("proxy_rpc_request",
                   [chain_id |-> rec.session.chain_id,
                    method |-> rec.method])>>)

eth_chain_id(rec) ==
    Done(rec, OkVal(chain_id_to_hex_str_json(rec.session.chain_id)), <<>>)

\* eth_send_transaction that forwards the transaction of the client as it
\* is, nonce included.
eth_send_transaction_keeping_nonce(rec, d, keychain_ok, remote_ok) ==
    LET signing_key == fetch_eth_signing_key(d, keychain_ok, rec.session)
        fetched == <<Ev("fetch_eth_signing_key", rec.session.address_id)>>
        tx == rec.params.tx
    IN IF ~signing_key.ok THEN Done(rec, FatalErr, fetched)
       ELSE IF ~rec.params.tx.ok
       THEN Done(rec, JsonRpcErr(InvalidParams), fetched)
       ELSE Done(rec,
                 IF remote_ok THEN OkVal(<<"tx_hash">>) ELSE RetriableErr,
                 fetched \o
                 <<Ev("send_transaction",
                      [signing_key |-> signing_key.val, tx |-> tx])>>)

eth_send_transaction(rec, d, keychain_ok, remote_ok) ==
    LET signing_key == fetch_eth_signing_key(d, keychain_ok, rec.session)
        fetched == <<Ev("fetch_eth_signing_key", rec.session.address_id)>>
        tx == [rec.params.tx EXCEPT !.nonce = NoNonce]
    IN IF ~signing_key.ok THEN Done(rec, FatalErr, fetched)
       ELSE IF ~rec.params.tx.ok
       THEN Done(rec, JsonRpcErr(InvalidParams), fetched)
       ELSE Done(rec,
                 IF remote_ok THEN OkVal(<<"tx_hash">>) ELSE RetriableErr,
                 fetched \o
                 <<Ev("send_transaction",
                      [signing_key |-> signing_key.val, tx |-> tx])>>)

\* personal_sign that does not compare the address argument with the
\* address of the session.
personal_sign_without_address_check(rec, d, keychain_ok) ==
    LET message == IF rec.params.message.ok
                   THEN decode_0x_hex_prefix(rec.params.message.text)
                   ELSE Err(JsonRpcErr(InvalidParams))
        address_arg == Address_from_str(rec.params.address)
        signing_key == fetch_eth_signing_key(d, keychain_ok, rec.session)
        fetched == <<Ev("fetch_eth_signing_key", rec.session.address_id)>>
    IN IF ~message.ok THEN Done(rec, message.err, <<>>)
       ELSE IF ~address_arg.ok
       THEN Done(rec, JsonRpcErr(InvalidParams), <<>>)
       ELSE IF rec.params.password = "bad"
       THEN Done(rec, JsonRpcErr(InvalidParams), <<>>)
       ELSE IF ~signing_key.ok THEN Done(rec, FatalErr, fetched)
       ELSE Done(rec,
                 OkVal(<<"signature", signing_key.val.key, message.val>>),
                 fetched \o
                 <<Ev("personal_sign",
                      [signing_key |-> signing_key.val,
                       message |-> message.val])>>)

personal_sign(rec, d, keychain_ok) ==
    LET message == IF rec.params.message.ok
                   THEN decode_0x_hex_prefix(rec.params.message.text)
                   ELSE Err(JsonRpcErr(InvalidParams))
        request_address == Address_from_str(rec.session.address)
        address_arg == Address_from_str(rec.params.address)
        signing_key == fetch_eth_signing_key(d, keychain_ok, rec.session)
        fetched == <<Ev("fetch_eth_signing_key", rec.session.address_id)>>
    IN IF ~message.ok THEN Done(rec, message.err, <<>>)
       ELSE IF ~address_arg.ok
       THEN Done(rec, JsonRpcErr(InvalidParams), <<>>)
       ELSE IF address_arg.bytes # request_address.bytes
       THEN Done(rec, JsonRpcErr(InvalidParams), <<>>)
       ELSE IF rec.params.password = "bad"
       THEN Done(rec, JsonRpcErr(InvalidParams), <<>>)
       ELSE IF ~signing_key.ok THEN Done(rec, FatalErr, fetched)
       ELSE Done(rec,
                 OkVal(<<"signature", signing_key.val.key, message.val>>),
                 fetched \o
                 <<Ev("personal_sign",
                      [signing_key |-> signing_key.val,
                       message |-> message.val])>>)

\* wallet_add_ethereum_chain that takes the number of any chain for a
\* supported chain.
wallet_add_ethereum_chain_any_chain(rec) ==
    LET chain_id == IF rec.params.chain.ok
                    THEN parse_0x_chain_id_any_u64(rec.params.chain.chain_id)
                    ELSE Err(JsonRpcErr(InvalidParams))
    IN IF ~chain_id.ok THEN Done(rec, chain_id.err, <<>>)
       ELSE Done(rec, OkVal(<<>>), <<>>)

\* wallet_add_ethereum_chain: the parameter is parsed as a supported chain
\* id and the result is null.
wallet_add_ethereum_chain(rec) ==
    LET chain_id == IF rec.params.chain.ok
                    THEN parse_0x_chain_id(rec.params.chain.chain_id)
                    ELSE Err(JsonRpcErr(InvalidParams))
    IN IF ~chain_id.ok THEN Done(rec, chain_id.err, <<>>)
       ELSE Done(rec, OkVal(<<>>), <<>>)

\* wallet_switch_ethereum_chain up to its transaction: the parameter.
wallet_switch_ethereum_chain(rec) ==
    LET new_chain_id == IF rec.params.chain.ok
                        THEN parse_0x_chain_id(rec.params.chain.chain_id)
                        ELSE Err(JsonRpcErr(InvalidParams))
    IN IF ~new_chain_id.ok THEN Done(rec, new_chain_id.err, <<>>)
       ELSE Goto([rec EXCEPT !.new_chain_id = new_chain_id.val], "switch",
                 <<>>)

\* wallet_switch_ethereum_chain that creates an address for the new chain
\* without looking for the one the key has.
switch_chain_tx_new_address(d, session, new_chain_id) ==
    deferred_transaction(d,
        LET chain == fetch_or_create_eth_chain_id(d, new_chain_id)
            asymmetric_key_id == fetch_key_id(chain.db, session.address_id)
            n == Cardinality({a \in chain.db.addresses :
                                a.key = asymmetric_key_id
                                /\ a.chain = chain.val})
            new_address_id == AddressId(asymmetric_key_id, chain.val, n + 1)
            created == [chain.db EXCEPT !.addresses =
                           @ \cup {[id |-> new_address_id,
                                    key |-> asymmetric_key_id,
                                    chain |-> chain.val]}]
        IN update_session_address(created, session, new_address_id))

\* The transaction of wallet_switch_ethereum_chain.
switch_chain_tx(d, session, new_chain_id) ==
    deferred_transaction(d,
        LET chain == fetch_or_create_eth_chain_id(d, new_chain_id)
            asymmetric_key_id == fetch_key_id(chain.db, session.address_id)
            new_address_id ==
                fetch_or_create_for_eth_chain(chain.db, asymmetric_key_id,
                                              chain.val)
        IN update_session_address(new_address_id.db, session,
                                  new_address_id.val))

\* wallet_switch_ethereum_chain after its transaction.
switch_chain_finish(rec, new_chain_id) ==
    Done(rec, OkVal(<<>>),
         <<Ev("commit", "switch")>> \o notify_chain_changed(new_chain_id))

web3_client_version(rec) == Done(rec, OkVal(<<"SealVault">>), <<>>)

web3_sha3(rec) ==
    LET message == IF rec.params.message.ok
                   THEN decode_0x_hex_prefix(rec.params.message.text)
                   ELSE Err(JsonRpcErr(InvalidParams))
    IN IF ~message.ok THEN Done(rec, message.err, <<>>)
       ELSE Done(rec, OkVal(<<"keccak256", message.val>>), <<>>)

dispatch_authorized_methods(rec, d, keychain_ok, remote_ok) ==
    CASE rec.method = "eth_chainId" -> eth_chain_id(rec)
      [] rec.method = "eth_sendTransaction" ->
            eth_send_transaction(rec, d, keychain_ok, remote_ok)
      [] rec.method = "personal_sign" -> personal_sign(rec, d, keychain_ok)
      [] rec.method = "wallet_addEthereumChain" ->
            wallet_add_ethereum_chain(rec)
      [] rec.method = "wallet_switchEthereumChain" ->
            wallet_switch_ethereum_chain(rec)
      [] rec.method = "web3_clientVersion" -> web3_client_version(rec)
      [] rec.method = "web3_sha3" -> web3_sha3(rec)
      [] OTHER -> proxy_method(rec, remote_ok)

\* eth_request_accounts that returns the address without notifying the
\* page.
eth_request_accounts_finish_silently(rec) ==
    Done(rec, OkVal(<<rec.session.address>>),
         <<Ev("update_last_used_at", rec.id)>>)

\* eth_request_accounts once it has the session, after update_last_used_at:
\* the page is notified and the address is returned in an array.
eth_request_accounts_finish(rec) ==
    Done(rec, OkVal(<<rec.session.address>>),
         <<Ev("update_last_used_at", rec.id)>> \o
         notify_connect(rec.session.chain_id, rec.session.address))

\* eth_request_accounts that asks for approval whether or not a session
\* exists.
eth_request_accounts_always_asks(rec) == Goto(rec, "favicon", <<>>)

\* eth_request_accounts up to the approval flow.
eth_request_accounts(rec) ==
    IF rec.session.some THEN Goto(rec, "connect", <<>>)
    ELSE Goto(rec, "favicon", <<>>)

\* dispatch that routes every method to its handler, session or not.
dispatch_without_session_check(rec, d, keychain_ok, remote_ok) ==
    IF rec.method \in BootstrapMethods THEN eth_request_accounts(rec)
    ELSE dispatch_authorized_methods(rec, d, keychain_ok, remote_ok)

\* dispatch that lets web3_clientVersion, web3_sha3 and
\* wallet_addEthereumChain through to their handlers without a session.
dispatch_sessionless_utilities(rec, d, keychain_ok, remote_ok) ==
    IF rec.method \in BootstrapMethods THEN eth_request_accounts(rec)
    ELSE IF rec.session.some
            \/ rec.method \in {"web3_clientVersion", "web3_sha3",
                               "wallet_addEthereumChain"}
    THEN dispatch_authorized_methods(rec, d, keychain_ok, remote_ok)
    ELSE Done(rec, JsonRpcErr(Unauthorized), <<>>)

\* dispatch that starts the approval flow for every method that finds no
\* session.
dispatch_approval_for_every_method(rec, d, keychain_ok, remote_ok) ==
    IF rec.method \in BootstrapMethods \/ ~rec.session.some
    THEN eth_request_accounts(rec)
    ELSE dispatch_authorized_methods(rec, d, keychain_ok, remote_ok)

\* dispatch that lets eth_sendTransaction and personal_sign through to their
\* handlers without a session.
dispatch_signing_without_session(rec, d, keychain_ok, remote_ok) ==
    IF rec.method \in BootstrapMethods THEN eth_request_accounts(rec)
    ELSE IF rec.session.some
            \/ rec.method \in {"eth_sendTransaction", "personal_sign"}
    THEN dispatch_authorized_methods(rec, d, keychain_ok, remote_ok)
    ELSE Done(rec, JsonRpcErr(Unauthorized), <<>>)

\* dispatch after the session has been resolved.
dispatch(rec, d, keychain_ok, remote_ok) ==
    IF rec.method \in BootstrapMethods THEN eth_request_accounts(rec)
    ELSE IF rec.session.some
    THEN dispatch_authorized_methods(rec, d, keychain_ok, remote_ok)
    ELSE Done(rec, JsonRpcErr(Unauthorized), <<>>)

\* request_add_new_dapp that reads the active account in a transaction which
\* is still open when approve_dapp is called.
fetch_account_in_open_transaction(rec, d) ==
    LET tx_conn == [rec EXCEPT !.held = Append(@, "transaction")]
    IN [tx_conn EXCEPT !.approval = fetch_active_account_id(d)]

\* request_add_new_dapp, the block that reads the active account: a
\* connection is taken (held), the account is read, and the connection is
\* dropped at the end of the block.
fetch_account_and_drop_connection(rec, d) ==
    LET conn == [rec EXCEPT !.held = Append(@, "connection")]
        account_id == [conn EXCEPT !.approval = fetch_active_account_id(d)]
    IN [account_id EXCEPT !.held = SubSeq(@, 1, Len(@) - 1)]

\* request_add_new_dapp that adds the dapp whatever approve_dapp returned.
request_add_new_dapp_ignoring_answer(rec, user_approved) ==
    Goto(rec, "add_new_dapp", <<Ev("approve_dapp_returned", user_approved)>>)

\* request_add_new_dapp after approve_dapp has returned, and the match of
\* eth_request_accounts on its result.
request_add_new_dapp(rec, user_approved) ==
    IF user_approved
    THEN Goto(rec, "add_new_dapp", <<Ev("approve_dapp_returned", TRUE)>>)
    ELSE Done(rec, JsonRpcErr(UserRejected),
              <<Ev("approve_dapp_returned", FALSE)>>)

\* add_new_dapp whose creations are not in one transaction: what was created
\* before a failure stays.
add_new_dapp_tx_not_atomic(d, url, account_id, keychain_ok, by) ==
    LET chain_id == default_dapp_chain
        dapp == create_if_not_exists(d, url)
        address == create_eth_key_and_address(dapp.db, keychain_ok,
                                              account_id, chain_id, dapp.val)
    IN IF ~address.ok THEN address
       ELSE create_eth_session(address.db, dapp.val, account_id, chain_id,
                               by)

\* add_new_dapp that adds a session for (account, dapp) whether or not one
\* exists, with the key the account has for the dapp.
add_new_dapp_tx_another_session(d, url, account_id, keychain_ok, by) ==
    LET chain_id == default_dapp_chain
        dapp == create_if_not_exists(d, url)
        key == KeyId(account_id, dapp.val)
        address ==
            IF \E k \in dapp.db.keys : k.id = key
            THEN fetch_or_create_for_eth_chain(dapp.db, key, chain_id)
            ELSE create_eth_key_and_address(dapp.db, keychain_ok, account_id,
                                            chain_id, dapp.val)
        n == Cardinality(SessionsOf(d, account_id, dapp.val)) + 1
        s == [id |-> SessionId(account_id, dapp.val, n),
              account |-> account_id, dapp |-> dapp.val,
              address_id |-> address.val, last_used_at |-> 0,
              created_by |-> by]
        d2 == [address.db EXCEPT !.sessions = @ \cup {s}]
    IN IF ~address.ok THEN TxErr(d) ELSE TxOk(d2, LocalDappSession(d2, s))

\* add_new_dapp that creates the rows for the account that is active when
\* the transaction runs.
add_new_dapp_tx_for_active_account(d, url, account_id, keychain_ok, by) ==
    deferred_transaction(d,
        LET chain_id == default_dapp_chain
            active == fetch_active_account_id(d)
            dapp == create_if_not_exists(d, url)
            address == create_eth_key_and_address(dapp.db, keychain_ok,
                                                  active, chain_id, dapp.val)
        IN IF ~address.ok THEN address
           ELSE create_eth_session(address.db, dapp.val, active, chain_id,
                                   by))

\* The transaction of add_new_dapp.
add_new_dapp_tx(d, url, account_id, keychain_ok, by) ==
    deferred_transaction(d,
        LET chain_id == default_dapp_chain
            dapp == create_if_not_exists(d, url)
            address == create_eth_key_and_address(dapp.db, keychain_ok,
                                                  account_id, chain_id,
                                                  dapp.val)
        IN IF ~address.ok THEN address
           ELSE create_eth_session(address.db, dapp.val, account_id,
                                   chain_id, by))

\* The transaction of transfer_default_dapp_allotment.
transfer_lookup_tx(d, session, keychain_ok) ==
    deferred_transaction(d,
        LET wallet_address_id ==
                fetch_eth_wallet_id(d, session.account_id, session.chain_id)
        IN IF ~wallet_address_id.ok THEN wallet_address_id
           ELSE Address_fetch_eth_signing_key(d, keychain_ok,
                                              wallet_address_id.val))


(***************************************************************************)
(* InMemoryKeychain.  The map from names to key material is a function on  *)
(* the names of the model; a name without an entry maps to NoKeyMaterial.  *)
(* A name is a sequence of parts.  The key material of a put is the number *)
(* of the call that puts it, so that the material of different puts        *)
(* differs.                                                                *)
(***************************************************************************)
\* The threads that call the keychain.
Callers == {1, 2}

\* keychain::soft_delete_rename: the name of a soft-deleted item.
soft_delete_rename(name) == <<"deleted">> \o name

\* The names that callers pass: two keys and the soft-delete name of one.
KeyNames == {<<"k1">>, <<"k2">>, soft_delete_rename(<<"k1">>)}

\* The names under which an item can be stored.
StoredNames == KeyNames \cup {soft_delete_rename(name) : name \in KeyNames}

NoKeyMaterial == 0

\* Error::Fatal
Error_Fatal(error, name) == [kind |-> "fatal", error |-> error, name |-> name]

\* KeyEncryptionKey::new
KeyEncryptionKey(name, key_material) ==
    [name |-> name, key_material |-> key_material]

\* HashMap::new
NoData == [name \in StoredNames |-> NoKeyMaterial]

\* InMemoryKeychain::get, under the read lock.
get(d, name) ==
    IF d[name] # NoKeyMaterial
    THEN Ok(KeyEncryptionKey(name, d[name]))
    ELSE Err(Error_Fatal("not found", name))

\* put_local_unlocked that inserts whether or not the name has an entry.
put_local_unlocked_overwriting(d, key) ==
    [ok |-> TRUE, data |-> [d EXCEPT ![key.name] = key.key_material],
     err |-> NoResult]

\* InMemoryKeychain::put_local_unlocked, under the write lock: the entry is
\* inserted when the name is vacant.
put_local_unlocked(d, key) ==
    IF d[key.name] = NoKeyMaterial
    THEN [ok |-> TRUE, data |-> [d EXCEPT ![key.name] = key.key_material],
          err |-> NoResult]
    ELSE [ok |-> FALSE, data |-> d,
          err |-> Error_Fatal("already exists", key.name)]

\* A removal that leaves the entry in the map.
remove_nothing(d, name) == d

\* HashMap::remove, under the write lock of soft_delete.
remove(d, name) == [d EXCEPT ![name] = NoKeyMaterial]

\* A call of the keychain: the method, its argument, where it is, the key
\* that soft_delete holds between its locks, the map when the call began
\* and what the call returned.
IdleCall ==
    [pc |-> "idle", id |-> 0, op |-> "", name |-> <<>>,
     key |-> KeyEncryptionKey(<<>>, NoKeyMaterial), pre |-> NoData,
     result |-> Err(NoResult)]


(***************************************************************************)
(* The state machine.                                                      *)
(*   db         the database                                               *)
(*   req        the requests in progress, by slot                          *)
(*   last       the request that returned in the last step, with its       *)
(*              result and trace, until the host has taken the response    *)
(*   nreq       the number of requests received                            *)
(*   transfers  the allotment transfers spawned in the background          *)
(*   conv       the last conversion of an error code or a chain id: its    *)
(*              input and what it gave                                     *)
(***************************************************************************)
\* Every account has a wallet key with an address on the default dapp chain.
Init ==
    /\ db = [active_account |-> "a1",
             dapps |-> {},
             keys |-> {[id |-> KeyId(a, WalletDapp), account |-> a,
                        dapp |-> WalletDapp] : a \in Accounts},
             addresses |-> {[id |-> AddressId(KeyId(a, WalletDapp),
                                              default_dapp_chain, 1),
                             key |-> KeyId(a, WalletDapp),
                             chain |-> default_dapp_chain] : a \in Accounts},
             chains |-> {default_dapp_chain},
             sessions |-> {}]
    /\ req = [r \in Slots |-> IdleReq]
    /\ last = IdleReq
    /\ nreq = 0
    /\ transfers = {}
    /\ conv = NoConv
    /\ data = NoData
    /\ call = [t \in Callers |-> IdleCall]
    /\ ncall = 0

\* The response of the last step has been delivered to the host.
Ready == last.pc = "idle"

\* A step of the request in slot r that leaves it as rec.
Step(r, rec) ==
    IF rec.pc = "done"
    THEN /\ last' = rec
         /\ req' = [req EXCEPT ![r] = IdleReq]
    ELSE /\ req' = [req EXCEPT ![r] = rec]
         /\ UNCHANGED last

\* in_page_request: a raw request that is too long or does not deserialize
\* is rejected; of any other the session is resolved in one transaction and
\* the request is dispatched.
InPageRequest(r, url, raw, method, params, keychain_ok, remote_ok) ==
    /\ Ready
    /\ req[r].pc = "idle"
    /\ \A q \in Slots : q < r => req[q].pc # "idle"
    /\ LET checked == check_raw_request(raw)
           account_id == fetch_active_account_id(db)
           maybe_session == fetch_session_for_approved_dapp(db, url)
           received == [IdleReq EXCEPT !.id = nreq + 1, !.url = url,
                                       !.raw = raw, !.parse = checked.parse]
           rec == [received EXCEPT
                     !.method = method,
                     !.params = params, !.session = maybe_session.val,
                     !.pre = [account |-> account_id,
                              session_row |->
                                  SessionsOf(db, account_id,
                                             dapp_identifier(url)) # {},
                              dapp_added |->
                                  fetch_id_for_account(db, url,
                                                       account_id).some]]
       IN IF checked.ok
          THEN /\ db' = maybe_session.db
               /\ Step(r, dispatch(rec, maybe_session.db, keychain_ok,
                                   remote_ok))
          ELSE /\ db' = db
               /\ Step(r, Done(received, checked.err, <<>>))
    /\ nreq' = nreq + 1
    /\ UNCHANGED transfers
    /\ UNCHANGED <<conv, data, call, ncall>>

\* request_add_new_dapp: the favicon is fetched over the network.
FetchFavicon(r, fetched) ==
    /\ Ready
    /\ req[r].pc = "favicon"
    /\ Step(r, IF fetched
               THEN Goto(req[r], "approve", <<Ev("fetch_favicon", req[r].url)>>)
               ELSE Done(req[r], FatalErr, <<Ev("fetch_favicon", req[r].url)>>))
    /\ UNCHANGED <<db, nreq, transfers>>
    /\ UNCHANGED <<conv, data, call, ncall>>

\* request_add_new_dapp: the active account is read and the host is asked
\* to approve the dapp.
ApproveDappCall(r) ==
    /\ Ready
    /\ req[r].pc = "approve"
    /\ LET rec == fetch_account_and_drop_connection(req[r], db)
       IN Step(r, Goto(rec, "approving",
                       <<Ev("approve_dapp",
                            [account_id |-> rec.approval,
                             dapp_identifier |-> dapp_identifier(req[r].url),
                             session_row |->
                                 SessionsOf(db, rec.approval,
                                            dapp_identifier(req[r].url)) # {}])>>))
    /\ UNCHANGED <<db, nreq, transfers>>
    /\ UNCHANGED <<conv, data, call, ncall>>

\* request_add_new_dapp: approve_dapp returns.
ApproveDappReturn(r, user_approved) ==
    /\ Ready
    /\ req[r].pc = "approving"
    /\ Step(r, request_add_new_dapp(req[r], user_approved))
    /\ UNCHANGED <<db, nreq, transfers>>
    /\ UNCHANGED <<conv, data, call, ncall>>

\* add_new_dapp: the dapp, the key with its address, and the session are
\* created in one transaction.
AddNewDapp(r, keychain_ok) ==
    /\ Ready
    /\ req[r].pc = "add_new_dapp"
    /\ LET session == add_new_dapp_tx(db, req[r].url, req[r].approval,
                                      keychain_ok, "add_new_dapp")
       IN /\ db' = session.db
          /\ Step(r, IF session.ok
                     THEN Goto([req[r] EXCEPT !.session = session.val],
                               "transfer", <<Ev("commit", "add_new_dapp")>>)
                     ELSE Done(req[r], FatalErr, <<Ev("rollback", "add_new_dapp")>>))
    /\ UNCHANGED <<nreq, transfers>>
    /\ UNCHANGED <<conv, data, call, ncall>>

\* transfer_default_dapp_allotment: the wallet key is looked up in one
\* transaction and the transfer is spawned in the background.
TransferDefaultDappAllotment(r, keychain_ok) ==
    /\ Ready
    /\ req[r].pc = "transfer"
    /\ LET wallet_signing_key == transfer_lookup_tx(db, req[r].session,
                                                    keychain_ok)
           fetched == <<Ev("fetch_eth_signing_key", "wallet")>>
       IN IF wallet_signing_key.ok
          THEN /\ transfers' = transfers \cup
                     {[id |-> req[r].id,
                       from |-> wallet_signing_key.val.key,
                       to |-> req[r].session.address,
                       status |-> "spawned"]}
               /\ Step(r, Goto(req[r], "connect",
                               fetched \o <<Ev("spawn_transfer", req[r].id)>>))
          ELSE /\ UNCHANGED transfers
               /\ Step(r, Done(req[r], FatalErr, fetched))
    /\ UNCHANGED <<db, nreq>>
    /\ UNCHANGED <<conv, data, call, ncall>>

\* The background task of transfer_default_dapp_allotment: a failure of
\* transfer_native_token is logged.
TransferNativeToken(id, transferred) ==
    /\ Ready
    /\ \E t \in transfers : t.id = id /\ t.status = "spawned"
    /\ transfers' =
          {IF t.id = id
           THEN [t EXCEPT !.status = IF transferred THEN "transferred"
                                     ELSE "logged"]
           ELSE t : t \in transfers}
    /\ UNCHANGED <<db, req, last, nreq>>
    /\ UNCHANGED <<conv, data, call, ncall>>

\* eth_request_accounts with a session: the session is touched, the page is
\* notified and the address returned.
Connect(r) ==
    /\ Ready
    /\ req[r].pc = "connect"
    /\ db' = update_last_used_at(db, req[r].session, req[r].id)
    /\ Step(r, eth_request_accounts_finish(req[r]))
    /\ UNCHANGED <<nreq, transfers>>
    /\ UNCHANGED <<conv, data, call, ncall>>

\* wallet_switch_ethereum_chain: the session is rebound in one transaction,
\* then the page is notified.
SwitchChain(r) ==
    /\ Ready
    /\ req[r].pc = "switch"
    /\ db' = switch_chain_tx(db, req[r].session, req[r].new_chain_id).db
    /\ Step(r, switch_chain_finish(req[r], req[r].new_chain_id))
    /\ UNCHANGED <<nreq, transfers>>
    /\ UNCHANGED <<conv, data, call, ncall>>

\* The user makes another account the active one.
SetActiveAccount(a) ==
    /\ Ready
    /\ a # db.active_account
    /\ db' = [db EXCEPT !.active_account = a]
    /\ UNCHANGED <<req, last, nreq, transfers>>
    /\ UNCHANGED <<conv, data, call, ncall>>

\* The dapp is added to an account on another device: its rows arrive
\* without a local session.
AddDappOnOtherDevice(a, url) ==
    /\ Ready
    /\ ~\E k \in db.keys : k.account = a /\ k.dapp = dapp_identifier(url)
    /\ LET dapp == create_if_not_exists(db, url)
       IN db' = create_eth_key_and_address(dapp.db, TRUE, a,
                                           default_dapp_chain, dapp.val).db
    /\ UNCHANGED <<req, last, nreq, transfers>>
    /\ UNCHANGED <<conv, data, call, ncall>>

\* The host takes the response of the request that returned.
Return ==
    /\ last.pc = "done"
    /\ last' = IdleReq
    /\ UNCHANGED <<db, req, nreq, transfers>>
    /\ UNCHANGED <<conv, data, call, ncall>>

\* An error code is converted to an i32 and to its code on the wire.
ConvertErrorCode(code) ==
    /\ conv' = [kind |-> "error_code", input |-> code,
                i32 |-> to_i32(code),
                wire |-> ErrorCode_code(ErrorCode_from(code))]
    /\ UNCHANGED <<db, req, last, nreq, transfers>>
    /\ UNCHANGED <<data, call, ncall>>

\* A number is written as eth_chainId and chainChanged write a chain id, and
\* the string is parsed as a chain id.
ConvertChainId(n) ==
    /\ conv' = [kind |-> "chain_id", input |-> n,
                hex |-> chain_id_to_hex_str_json(n),
                parsed |-> parse_0x_chain_id(chain_id_to_hex_str_json(n))]
    /\ UNCHANGED <<db, req, last, nreq, transfers>>
    /\ UNCHANGED <<data, call, ncall>>

\* A step of the call of caller t that leaves the call as c.
Called(t, c) ==
    /\ call' = [call EXCEPT ![t] = c]
    /\ UNCHANGED <<db, req, last, nreq, transfers, conv>>

\* A call begins: the lowest idle caller makes it.
Begins(t, op, name) ==
    [IdleCall EXCEPT !.id = ncall + 1, !.op = op, !.name = name,
                     !.pre = data]

CanBegin(t) ==
    /\ call[t].pc = "idle"
    /\ \A q \in Callers : q < t => call[q].pc # "idle"

\* InMemoryKeychain::get
KeychainGet(t, name) ==
    /\ CanBegin(t)
    /\ Called(t, [Begins(t, "get", name) EXCEPT
                    !.pc = "done", !.result = get(data, name)])
    /\ ncall' = ncall + 1
    /\ UNCHANGED data

\* InMemoryKeychain::put_local_unlocked of a key with new key material.
KeychainPut(t, name) ==
    /\ CanBegin(t)
    /\ LET key == KeyEncryptionKey(name, ncall + 1)
           put == put_local_unlocked(data, key)
       IN /\ data' = put.data
          /\ Called(t, [Begins(t, "put_local_unlocked", name) EXCEPT
                          !.pc = "done", !.key = key,
                          !.result = IF put.ok THEN Ok(<<>>)
                                     ELSE Err(put.err)])
    /\ ncall' = ncall + 1

\* InMemoryKeychain::soft_delete, the call of get: its error is returned,
\* its key is kept under the new name for the call of put_local_unlocked.
SoftDeleteGet(t, name) ==
    /\ CanBegin(t)
    /\ LET key == get(data, name)
           new_name == soft_delete_rename(name)
           began == Begins(t, "soft_delete", name)
       IN Called(t, IF key.ok
                    THEN [began EXCEPT
                            !.pc = "put_local_unlocked",
                            !.key = KeyEncryptionKey(new_name,
                                                     key.val.key_material)]
                    ELSE [began EXCEPT !.pc = "done", !.result = key])
    /\ ncall' = ncall + 1
    /\ UNCHANGED data

\* InMemoryKeychain::soft_delete, the call of put_local_unlocked: its error
\* is returned.
SoftDeletePut(t) ==
    /\ call[t].pc = "put_local_unlocked"
    /\ LET put == put_local_unlocked(data, call[t].key)
       IN /\ data' = put.data
          /\ Called(t, IF put.ok
                       THEN [call[t] EXCEPT !.pc = "remove"]
                       ELSE [call[t] EXCEPT !.pc = "done",
                                            !.result = Err(put.err)])
    /\ UNCHANGED ncall

\* InMemoryKeychain::soft_delete, the removal of the name under the write
\* lock.
SoftDeleteRemove(t) ==
    /\ call[t].pc = "remove"
    /\ data' = remove(data, call[t].name)
    /\ Called(t, [call[t] EXCEPT !.pc = "done", !.result = Ok(<<>>)])
    /\ UNCHANGED ncall

\* The caller takes what the call returned.
KeychainReturn(t) ==
    /\ call[t].pc = "done"
    /\ Called(t, IdleCall)
    /\ UNCHANGED <<data, ncall>>

\* A keychain call begins.
KeychainCall ==
    \E t \in Callers, name \in KeyNames :
        \/ KeychainGet(t, name)
        \/ KeychainPut(t, name)
        \/ SoftDeleteGet(t, name)

\* The steps of the keychain calls in progress.
KeychainProgress ==
    \/ \E t \in Callers : SoftDeletePut(t)
    \/ \E t \in Callers : SoftDeleteRemove(t)
    \/ \E t \in Callers : KeychainReturn(t)

\* A keychain call begins when no call is in progress.
SequentialKeychainCall ==
    /\ \A t \in Callers : call[t].pc = "idle"
    /\ ncall < MaxKeychainCalls
    /\ KeychainCall

\* A keychain call begins, also while another call is in progress.
ConcurrentKeychainCall ==
    /\ ncall < MaxConcurrentKeychainCalls
    /\ KeychainCall

\* The steps of the requests in progress and of the environment.
Progress ==
    \/ Return
    \/ \E r \in Slots, fetched \in BOOLEAN : FetchFavicon(r, fetched)
    \/ \E r \in Slots : ApproveDappCall(r)
    \/ \E r \in Slots, user_approved \in BOOLEAN :
          ApproveDappReturn(r, user_approved)
    \/ \E r \in Slots, keychain_ok \in BOOLEAN : AddNewDapp(r, keychain_ok)
    \/ \E r \in Slots, keychain_ok \in BOOLEAN :
          TransferDefaultDappAllotment(r, keychain_ok)
    \/ \E id \in 1..(MaxRequests + MaxConcurrentRequests),
          transferred \in BOOLEAN :
          TransferNativeToken(id, transferred)
    \/ \E r \in Slots : Connect(r)
    \/ \E r \in Slots : SwitchChain(r)
    \/ \E a \in Accounts : SetActiveAccount(a)
    \/ \E p \in OtherDeviceDapps : AddDappOnOtherDevice(p[1], p[2])

\* A request of any method is received when no request is in progress.
SequentialRequest ==
    /\ \A q \in Slots : req[q].pc = "idle"
    /\ nreq < MaxRequests
    /\ \E r \in Slots, url \in Urls, method \in Methods \cup {Unparsed} :
          \E raw \in RawsFor(method),
             params \in ParamsFor(method),
             keychain_ok \in KeychainOutcomes(method),
             remote_ok \in RemoteOutcomes(method) :
             InPageRequest(r, url, raw, method, params, keychain_ok,
                           remote_ok)

\* A request that connects, switches the chain or reads it is received,
\* also while another request is in progress.
ConcurrentRequest ==
    /\ nreq < MaxConcurrentRequests
    /\ \E r \in Slots, url \in ConcurrentUrls, method \in ConcurrentMethods :
          \E params \in ConcurrentParamsFor(method) :
             InPageRequest(r, url, [size |-> 1, parses |-> TRUE], method,
                           params, TRUE, TRUE)

Next == SequentialRequest \/ Progress

Spec == Init /\ [][Next]_vars

NextConcurrent == ConcurrentRequest \/ Progress

SpecConcurrent == Init /\ [][NextConcurrent]_vars

NextConversions ==
    \/ \E code \in InPageErrorCode : ConvertErrorCode(code)
    \/ \E n \in 0..MaxChainNumber : ConvertChainId(n)

SpecConversions == Init /\ [][NextConversions]_vars

NextKeychain == SequentialKeychainCall \/ KeychainProgress

SpecKeychain == Init /\ [][NextKeychain]_vars

NextKeychainConcurrent == ConcurrentKeychainCall \/ KeychainProgress

SpecKeychainConcurrent == Init /\ [][NextKeychainConcurrent]_vars


(***************************************************************************)
(* Properties.                                                             *)
(***************************************************************************)
\* A request has returned in the last step.
Returned == last.pc = "done"

DappOf(rec) == dapp_identifier(rec.url)

\* approve_dapp returned false to the request.
Declined(rec) ==
    \E i \in 1..Len(rec.trace) :
        rec.trace[i].ev = "approve_dapp_returned" /\ rec.trace[i].arg = FALSE

\* The request changed state in the step from req[r] to its next position.
Moved(r) == req'[r] # req[r]

\* C1 as stated: a request of another method than the bootstrap methods that
\* is received while no session row exists for (active account, dapp) fails
\* with code 4100 and has no effect.
C1_NoSessionRowUnauthorized ==
    Returned /\ last.parse = "ok" /\ last.method \notin BootstrapMethods
    /\ ~last.pre.session_row
    => last.result = JsonRpcErr(Unauthorized) /\ Len(last.trace) = 0

\* C1, amended: a request of another method than the bootstrap methods that
\* is received while the dapp has not been added to the active account (the
\* session resolver returns no session) fails with code 4100 and has no
\* effect: no provider call, no key fetch, no approval prompt, no
\* notification.
C1_Unauthorized ==
    Returned /\ last.parse = "ok" /\ last.method \notin BootstrapMethods
    /\ ~last.pre.dapp_added
    => /\ last.result = JsonRpcErr(Unauthorized)
       /\ Len(last.trace) = 0
       /\ ~last.session.some

C1_Witness ==
    /\ Returned
    /\ last.method = "personal_sign"
    /\ ~last.pre.dapp_added
    /\ last.result.code = Unauthorized

\* C2: a bootstrap request received when a session exists for (active
\* account, dapp), such as the second of two eth_requestAccounts of which
\* the first was approved, returns the address of that session without
\* fetching a favicon, asking for approval or spawning a transfer, and
\* creates no session.
C2_SecondCallReusesSession ==
    /\ \A r \in Slots :
          req[r].method \in BootstrapMethods /\ req[r].pre.session_row
          => /\ req[r].pc = "connect"
             /\ Len(req[r].trace) = 0
    /\ Returned /\ last.method \in BootstrapMethods /\ last.pre.session_row
       => /\ ~Has(last.trace, "fetch_favicon")
          /\ ~Has(last.trace, "approve_dapp")
          /\ ~Has(last.trace, "spawn_transfer")
          /\ ~Has(last.trace, "commit")
          /\ last.result.kind = "ok"
          /\ \E s \in SessionsOf(db, last.pre.account, DappOf(last)) :
                /\ s.id = last.session.id
                /\ last.result.value = <<LocalDappSession(db, s).address>>

C2_Witness ==
    /\ Returned
    /\ last.method = "eth_requestAccounts"
    /\ last.pre.session_row
    /\ last.result.kind = "ok"
    /\ \E s \in SessionsOf(db, last.pre.account, DappOf(last)) :
          s.created_by = "add_new_dapp"

\* C3: a request to which approve_dapp returned false fails with code 4001
\* at once; it has fetched the favicon and asked for approval and nothing
\* else (no notification, no transfer, no commit), and no step of a request
\* up to the return of approve_dapp changes the database.
C3_DeclinedState ==
    /\ \A r \in Slots : ~Declined(req[r])
    /\ Returned /\ Declined(last)
       => /\ last.result = JsonRpcErr(UserRejected)
          /\ [i \in 1..Len(last.trace) |-> last.trace[i].ev]
                = <<"fetch_favicon", "approve_dapp", "approve_dapp_returned">>

C3_DeclinedStep ==
    \A r \in Slots :
        /\ Moved(r)
        /\ \/ req'[r].pc \in {"favicon", "approve", "approving"}
           \/ req[r].pc = "approving" /\ Returned' /\ Declined(last')
        => db' = db

C3_DeclineChangesNothing == []C3_DeclinedState /\ [][C3_DeclinedStep]_vars

C3_Witness ==
    /\ Returned
    /\ Declined(last)
    /\ last.result.code = UserRejected

\* The dapp row, the key of (account, dapp), the address of that key on the
\* default dapp chain and the session of (account, dapp) exist in d.
AllCreated(d, account_id, dapp_id) ==
    /\ dapp_id \in d.dapps
    /\ \E k \in d.keys :
          /\ k.account = account_id /\ k.dapp = dapp_id
          /\ \E a \in d.addresses :
                /\ a.key = k.id /\ a.chain = default_dapp_chain
                /\ \E s \in SessionsOf(d, account_id, dapp_id) :
                      s.address_id = a.id

\* The request has passed add_new_dapp's transaction with a commit.
Committed(rec) ==
    \E i \in 1..Len(rec.trace) :
        rec.trace[i].ev = "commit" /\ rec.trace[i].arg = "add_new_dapp"

RolledBack(rec) ==
    \E i \in 1..Len(rec.trace) :
        rec.trace[i].ev = "rollback" /\ rec.trace[i].arg = "add_new_dapp"

C4_AfterAddNewDapp ==
    /\ \A r \in Slots :
          Committed(req[r])
          => AllCreated(db, req[r].approval, DappOf(req[r]))
    /\ Returned /\ Committed(last)
       => AllCreated(db, last.approval, DappOf(last))
    /\ \A r \in Slots : ~RolledBack(req[r])

C4_AddNewDappStep ==
    \A r \in Slots :
        req[r].pc = "add_new_dapp" /\ Moved(r)
        => \/ /\ req'[r].pc = "transfer"
              /\ Committed(req'[r])
              /\ AllCreated(db', req[r].approval, DappOf(req[r]))
           \/ /\ Returned'
              /\ RolledBack(last')
              /\ last'.result.kind = "fatal"
              /\ db' = db

\* C4: add_new_dapp creates the dapp row, the signing key, its address on
\* the default dapp chain and the session in one step: when it has returned
\* with success all four exist for (approving account, dapp), and when it
\* has returned with an error raised in its transaction the database is as
\* it was before the call.
C4_AllOrNothing == []C4_AfterAddNewDapp /\ [][C4_AddNewDappStep]_vars

C4_Witness ==
    /\ Returned
    /\ RolledBack(last)
    /\ DappOf(last) \notin db.dapps
    /\ SessionsOf(db, last.approval, DappOf(last)) = {}

\* C5 as stated: once add_new_dapp's transaction has committed, the
\* eth_requestAccounts request returns the address of the created session
\* and the session stays, whatever fails in the allotment step.
C5_FundingFailureNotSurfaced ==
    Returned /\ Committed(last)
    => /\ last.result.kind = "ok"
       /\ last.result.value = <<last.session.address>>
       /\ \E s \in SessionsOf(db, last.approval, DappOf(last)) :
             s.id = last.session.id

\* The lookup of the wallet signing key failed after the commit: the request
\* has returned an error, no transfer was spawned and the session exists.
C5_Witness ==
    /\ Returned
    /\ Committed(last)
    /\ last.result.kind = "fatal"
    /\ ~Has(last.trace, "spawn_transfer")
    /\ \E s \in SessionsOf(db, last.approval, DappOf(last)) :
          s.id = last.session.id

\* C6: a request with a session whose method is neither handled by name nor
\* on the proxy allow-list returns code 4200, and no request of such a
\* method, with a session or without, is forwarded to a remote provider.
C6_UnsupportedMethod ==
    /\ \A r \in Slots : ~Has(req[r].trace, "proxy_rpc_request")
    /\ Returned /\ Has(last.trace, "proxy_rpc_request")
       => last.method \in PROXIED_RPC_METHODS
    /\ Returned /\ last.parse = "ok"
       /\ last.method \notin
             BootstrapMethods \cup HandledMethods \cup PROXIED_RPC_METHODS
       => /\ Len(last.trace) = 0
          /\ last.session.some
             => last.result = JsonRpcErr(UnsupportedMethod)
          /\ ~last.session.some => last.result = JsonRpcErr(Unauthorized)

C6_Witness ==
    /\ Returned
    /\ last.method = "eth_coinbase"
    /\ last.session.some
    /\ last.result.code = UnsupportedMethod

\* C7: a personal_sign request with a session whose address argument is not
\* the 20 bytes of the session's address fails with invalid params; no
\* signing key is fetched and nothing is signed.
C7_AddressMismatch ==
    /\ Returned /\ last.method = "personal_sign" /\ last.session.some
       /\ last.params.address.bytes # last.session.address.bytes
       => /\ last.result = JsonRpcErr(InvalidParams)
          /\ Len(last.trace) = 0
    /\ Returned /\ Has(last.trace, "personal_sign")
       => /\ last.method = "personal_sign"
          /\ last.params.address.bytes = last.session.address.bytes

C7_Witness ==
    /\ Returned
    /\ last.method = "personal_sign"
    /\ last.session.some
    /\ last.params.message.text = <<"0", "x", "a", "B">>
    /\ last.params.password = "absent"
    /\ last.params.address.form = "checksum"
    /\ last.params.address.bytes # last.session.address.bytes
    /\ last.result.code = InvalidParams

\* C8: the transaction an eth_sendTransaction request passes to
\* send_transaction has no nonce, whatever nonce the client gave, and the
\* other fields of the client's transaction.
C8_NonceCleared ==
    /\ \A r \in Slots : ~Has(req[r].trace, "send_transaction")
    /\ Returned
       => \A i \in 1..Len(last.trace) :
             last.trace[i].ev = "send_transaction"
             => /\ last.method = "eth_sendTransaction"
                /\ last.params.tx.ok
                /\ last.trace[i].arg.tx.nonce = NoNonce
                /\ last.trace[i].arg.tx
                      = [last.params.tx EXCEPT !.nonce = NoNonce]
                /\ last.trace[i].arg.tx.to = last.params.tx.to
                /\ last.trace[i].arg.tx.value = last.params.tx.value

C8_Witness ==
    /\ Returned
    /\ Has(last.trace, "send_transaction")
    /\ last.params.tx.nonce = SomeNonce(7)
    /\ last.result.kind = "ok"

\* "0x" and one to sixteen hexadecimal digits that are the number of a
\* supported chain.
Zeros(n) == [i \in 1..n |-> "0"]

SupportedChainId(p, chain_id) ==
    /\ p.ok
    /\ chain_id \in SupportedChains
    /\ \E z \in 0..(U64HexDigits - 1) :
          /\ p.chain_id = <<"0", "x">> \o Zeros(z) \o HexStr(chain_id)
          /\ Len(p.chain_id) <= 2 + U64HexDigits

BadChainId(p) == ~\E c \in SupportedChains : SupportedChainId(p, c)

\* The row of the session, with the chain of its address.
SessionRow(d, id) ==
    {[address_id |-> s.address_id,
      chain |-> (CHOOSE a \in d.addresses : a.id = s.address_id).chain,
      key |-> (CHOOSE a \in d.addresses : a.id = s.address_id).key] :
        s \in {t \in d.sessions : t.id = id}}

C9_BadChainIdState ==
    /\ \A r \in Slots :
          req[r].pc = "switch" => ~BadChainId(req[r].params.chain)
    /\ Returned /\ last.method = "wallet_switchEthereumChain"
       /\ last.session.some /\ BadChainId(last.params.chain)
       => /\ last.result = JsonRpcErr(InvalidParams)
          /\ Len(last.trace) = 0
          /\ SessionRow(db, last.session.id)
                = {[address_id |-> last.session.address_id,
                    chain |-> last.session.chain_id,
                    key |-> last.session.address.bytes]}

C9_BadChainIdStep ==
    /\ Returned'
    /\ ~Returned
    /\ last'.method = "wallet_switchEthereumChain"
    /\ BadChainId(last'.params.chain)
    => /\ db'.addresses = db.addresses
       /\ db'.chains = db.chains
       /\ \A s \in db.sessions : s \in db'.sessions

\* C9: wallet_switchEthereumChain with a chain id that is malformed or not
\* the number of a supported chain returns an error; the request never
\* reaches the transaction, the session keeps its chain, address and address
\* id, no address is created and no notification is emitted.
C9_BadChainIdChangesNothing ==
    []C9_BadChainIdState /\ [][C9_BadChainIdStep]_vars

C9_Witness ==
    /\ Returned
    /\ last.method = "wallet_switchEthereumChain"
    /\ last.session.some
    /\ last.params.chain.chain_id = <<"0", "x", "2">>
    /\ last.result.code = InvalidParams

\* The call of the host's notify callback with the tag and the data.
Notified(tag, payload) ==
    [ev |-> "notify", arg |-> [event |-> tag, data |-> payload]]

\* The chain of the session of (account, dapp) in d.
ChainsOfSession(d, account_id, dapp_id) ==
    {(CHOOSE a \in d.addresses : a.id = s.address_id).chain :
        s \in SessionsOf(d, account_id, dapp_id)}

C10_SwitchedState ==
    /\ Returned /\ last.method = "wallet_switchEthereumChain"
       /\ last.result.kind = "ok"
       => /\ SupportedChainId(last.params.chain, last.new_chain_id)
          /\ last.trace
                = <<Ev("commit", "switch"),
                    Notified(<<"c", "h", "a", "i", "n", "C", "h", "a", "n", "g", "e", "d">>,
                             <<"0", "x">> \o HexStr(last.new_chain_id)),
                    Notified(<<"n", "e", "t", "w", "o", "r", "k", "C", "h", "a", "n", "g", "e", "d">>,
                             DecStr(last.new_chain_id))>>
          /\ ChainsOfSession(db, last.session.account_id,
                             last.session.dapp_id) = {last.new_chain_id}
    /\ \A r \in Slots : ~Has(req[r].trace, "notify")
    /\ Returned /\ last.method = "eth_chainId" /\ last.session.some
       => \E c \in ChainsOfSession(db, last.pre.account, DappOf(last)) :
             last.result = OkVal(<<"0", "x">> \o HexStr(c))

\* The chain of a session changes only in the transaction of a switch, to
\* the chain of that switch.
C10_SwitchedStep ==
    \A s \in db.sessions :
        ChainsOfSession(db', s.account, s.dapp)
            # ChainsOfSession(db, s.account, s.dapp)
        => \E r \in Slots :
              /\ req[r].pc = "switch"
              /\ Returned'
              /\ last'.result.kind = "ok"
              /\ req[r].session.id = s.id
              /\ ChainsOfSession(db', s.account, s.dapp)
                    = {req[r].new_chain_id}

\* C10: a successful wallet_switchEthereumChain to the supported chain X
\* commits the rebinding of the session, then emits one chainChanged with
\* the hexadecimal X and then one networkChanged with the decimal X, and
\* nothing else; from then on the session is on X until the next successful
\* switch, and an eth_chainId for the same (account, dapp) returns the chain
\* of the session.
C10_SwitchThenNotify == []C10_SwitchedState /\ [][C10_SwitchedStep]_vars

C10_Witness ==
    /\ Returned
    /\ last.method = "eth_chainId"
    /\ last.result = OkVal(<<"0", "x", "1">>)
    /\ ChainsOfSession(db, last.pre.account, DappOf(last)) = {EthMainnet}

C11_OversizedState ==
    /\ Returned /\ last.raw.size > MAX_JSONRPC_REQUEST_SIZE_BYTES
       => /\ last.result = invalid_raw_request
          /\ last.response = Err(invalid_raw_request)
          /\ last.parse = "none"
          /\ last.pre = NoPre
          /\ ~last.session.some
          /\ Len(last.trace) = 0
    /\ Returned /\ last.raw.size = MAX_JSONRPC_REQUEST_SIZE_BYTES
       => /\ last.parse # "none"
          /\ last.raw.parses => last.parse = "ok" /\ last.pre # NoPre

C11_OversizedStep ==
    Returned' /\ ~Returned
    /\ last'.raw.size > MAX_JSONRPC_REQUEST_SIZE_BYTES
    => db' = db /\ transfers' = transfers /\ req' = req

\* C11: a raw request longer than the greatest length is rejected with the
\* retriable error of invalid_raw_request; it is not deserialized, no session
\* is resolved and the database is not touched.  A request of exactly the
\* greatest length passes the size check: it is deserialized and, when it is
\* a JSON-RPC request, dispatched.
C11_OversizedRejected == []C11_OversizedState /\ [][C11_OversizedStep]_vars

C11_Witness ==
    /\ Returned
    /\ last.raw = [size |-> MAX_JSONRPC_REQUEST_SIZE_BYTES + 1, parses |-> TRUE]
    /\ last.response = Err(RetriableErr)
    /\ db.dapps # {}

\* C12: when the handler of a parsed request fails with an Error::JsonRpc,
\* in_page_request returns successfully: the hexadecimal bytes of an error
\* response with the code of the error and the id of the request.
C12_ProtocolErrorIsResponse ==
    Returned /\ last.parse = "ok" /\ last.result.kind = "jsonrpc"
    => /\ last.response.ok
       /\ last.response.val.encoding = "hex"
       /\ last.response.val.bytes.id = last.id
       /\ last.response.val.bytes.error.kind = "jsonrpc"
       /\ last.response.val.bytes.error.code = last.result.code
       /\ last.response.val.bytes.result = <<>>

C12_Witness ==
    /\ Returned
    /\ last.parse = "ok"
    /\ last.id = 2
    /\ last.result = JsonRpcErr(UserRejected)
    /\ last.response.ok
    /\ last.response.val.bytes.error.code = UserRejected

\* C13 as stated: every request that parses yields a JSON-RPC response,
\* whatever fails while it is handled.
C13_ParsedAlwaysResponse ==
    Returned /\ last.parse = "ok" => last.response.ok

\* C13, amended: in_page_request fails with an opaque error exactly when the
\* raw request is too long or does not parse, or when the handler fails with
\* an error that is not an Error::JsonRpc (fatal or retriable); that error is
\* returned as it is.  A value and an Error::JsonRpc yield a response.
C13_OpaqueFailures ==
    Returned
    => /\ last.response.ok
          <=> last.parse = "ok" /\ last.result.kind \in {"ok", "jsonrpc"}
       /\ ~last.response.ok
          => /\ last.response.err = last.result
             /\ last.result.kind \in {"fatal", "retriable"}
       /\ last.parse # "ok" => last.result = invalid_raw_request

C13_Witness ==
    /\ Returned
    /\ last.parse = "ok"
    /\ last.method = "personal_sign"
    /\ last.result.kind = "fatal"
    /\ last.response = Err(FatalErr)

\* The names of the events of a trace, in order.
Names(trace) == [i \in 1..Len(trace) |-> trace[i].ev]

\* C14: while the favicon fetch or the approve_dapp callback of a request is
\* in progress the request holds no transaction and no connection; the
\* favicon has been fetched before approve_dapp is called, and approve_dapp
\* has returned before the transaction of add_new_dapp commits or rolls back.
C14_NoTransactionWhileBlocked ==
    /\ \A r \in Slots :
          /\ req[r].pc \in {"favicon", "approve", "approving"}
             => req[r].held = <<>>
          /\ req[r].pc = "favicon" => Names(req[r].trace) = <<>>
          /\ req[r].pc = "approve"
             => Names(req[r].trace) = <<"fetch_favicon">>
          /\ req[r].pc = "approving"
             => Names(req[r].trace) = <<"fetch_favicon", "approve_dapp">>
          /\ req[r].pc = "add_new_dapp"
             => Names(req[r].trace)
                   = <<"fetch_favicon", "approve_dapp",
                       "approve_dapp_returned">>
          /\ Committed(req[r])
             => SubSeq(Names(req[r].trace), 1, 4)
                   = <<"fetch_favicon", "approve_dapp",
                       "approve_dapp_returned", "commit">>
    /\ Returned /\ (Committed(last) \/ RolledBack(last))
       => /\ SubSeq(Names(last.trace), 1, 3)
                = <<"fetch_favicon", "approve_dapp", "approve_dapp_returned">>
          /\ Names(last.trace)[4] \in {"commit", "rollback"}
    /\ Returned => last.held = <<>>

C14_Witness ==
    /\ req[1].pc = "approving"
    /\ req[1].held = <<>>
    /\ req[2].pc = "favicon"
    /\ req[2].url = req[1].url

\* C15: there is at most one session per (account, dapp), also when two
\* bootstrap requests of one origin are in progress at the same time and
\* both are approved.
C15_OneSessionPerAccountAndDapp ==
    \A s1 \in db.sessions, s2 \in db.sessions :
        s1.account = s2.account /\ s1.dapp = s2.dapp => s1 = s2

\* Two requests of one origin were approved for the same account: the first
\* has created the session, the transaction of the second has failed.
C15_Witness ==
    /\ Returned
    /\ last.method = "eth_requestAccounts"
    /\ last.id = 2
    /\ RolledBack(last)
    /\ AllCreated(db, last.approval, DappOf(last))
    /\ \E s \in SessionsOf(db, last.approval, DappOf(last)) :
          s.created_by = "add_new_dapp"

\* C16: a bootstrap request that returns a value has set last_used_at of its
\* session, has then called notify once, with sealVaultConnect and the chain
\* id, network version and address of the session, and returns the array
\* with the address of the session as its only element.
C16_ConnectOnSuccess ==
    Returned /\ last.method \in BootstrapMethods /\ last.result.kind = "ok"
    => LET n == Len(last.trace)
       IN /\ n >= 2
          /\ last.trace[n - 1] = Ev("update_last_used_at", last.id)
          /\ last.trace[n]
                = Notified(<<"s", "e", "a", "l", "V", "a", "u", "l", "t", "C", "o", "n", "n", "e", "c", "t">>,
                           [chain_id |->
                                <<"0", "x">> \o HexStr(last.session.chain_id),
                            network_version |->
                                DecStr(last.session.chain_id),
                            selected_address |-> last.session.address])
          /\ Cardinality({i \in 1..n : last.trace[i].ev = "notify"}) = 1
          /\ last.result.value = <<last.session.address>>
          /\ Len(last.result.value) = 1
          /\ \E s \in db.sessions :
                /\ s.id = last.session.id
                /\ s.last_used_at = last.id
                /\ LocalDappSession(db, s).address = last.session.address
                /\ LocalDappSession(db, s).chain_id = last.session.chain_id

C16_Witness ==
    /\ Returned
    /\ last.method = "eth_accounts"
    /\ last.result.kind = "ok"
    /\ Committed(last)
    /\ \E s \in db.sessions : s.id = last.session.id /\ s.last_used_at = last.id

\* The tags of the provider events on the wire.
WireTags ==
    [c |-> <<"c", "o", "n", "n", "e", "c", "t">>,
     cc |-> <<"c", "h", "a", "i", "n", "C", "h", "a", "n", "g", "e", "d">>,
     ac |-> <<"a", "c", "c", "o", "u", "n", "t", "s", "C", "h", "a", "n", "g", "e", "d">>,
     nc |-> <<"n", "e", "t", "w", "o", "r", "k", "C", "h", "a", "n", "g", "e", "d">>,
     svc |-> <<"s", "e", "a", "l", "V", "a", "u", "l", "t", "C", "o", "n", "n", "e", "c", "t">>]

\* The notifications of a trace have tags of provider events.
TagsOnTheWire(trace) ==
    \A i \in 1..Len(trace) :
        trace[i].ev = "notify"
        => trace[i].arg.event \in {WireTags.cc, WireTags.nc, WireTags.svc}

\* C18: Connect, ChainChanged, AccountsChanged, NetworkChanged and
\* SealVaultConnect serialize to connect, chainChanged, accountsChanged,
\* networkChanged and sealVaultConnect, the first character of every tag is a
\* lower-case letter, and every notification a request has emitted carries
\* one of these tags.
C18_LowerCamelCaseTags ==
    /\ serialize_provider_event(ProviderEvent_Connect) = WireTags.c
    /\ serialize_provider_event(ProviderEvent_ChainChanged) = WireTags.cc
    /\ serialize_provider_event(ProviderEvent_AccountsChanged) = WireTags.ac
    /\ serialize_provider_event(ProviderEvent_NetworkChanged) = WireTags.nc
    /\ serialize_provider_event(ProviderEvent_SealVaultConnect) = WireTags.svc
    /\ \A e \in ProviderEvent :
          \E i \in 1..Len(LowerCase) :
              serialize_provider_event(e)[1] = LowerCase[i]
    /\ \A r \in Slots : TagsOnTheWire(req[r].trace)
    /\ TagsOnTheWire(last.trace)

C18_Witness ==
    /\ Returned
    /\ last.method = "wallet_switchEthereumChain"
    /\ \E i \in 1..Len(last.trace) :
          /\ last.trace[i].ev = "notify"
          /\ last.trace[i].arg.event = WireTags.nc
    /\ \E s \in db.sessions : s.last_used_at > 0

\* The codes on the wire, as JSON-RPC and EIP-1193 give them.
WireCode(code) ==
    CASE code = "ParseError" -> -32700
      [] code = "InvalidRequest" -> -32600
      [] code = "MethodNotFound" -> -32601
      [] code = "InvalidParams" -> -32602
      [] code = "InternalError" -> -32603
      [] code = "UserRejected" -> 4001
      [] code = "Unauthorized" -> 4100
      [] code = "UnsupportedMethod" -> 4200
      [] code = "Disconnected" -> 4900
      [] code = "ChainDisconnected" -> 4901

\* C17: every variant of InPageErrorCode converts to an i32 (to_i32 does not
\* panic), and its code on the wire is the JSON-RPC code of ParseError,
\* InvalidRequest, MethodNotFound, InvalidParams and InternalError, and 4001,
\* 4100, 4200, 4900, 4901 for UserRejected, Unauthorized, UnsupportedMethod,
\* Disconnected and ChainDisconnected.
C17_ErrorCodes ==
    conv.kind = "error_code"
    => /\ conv.i32.ok
       /\ conv.i32.val \in I32
       /\ conv.wire \in I32
       /\ conv.wire = WireCode(conv.input)

C17_Witness ==
    /\ conv.kind = "error_code"
    /\ conv.input = "ChainDisconnected"
    /\ conv.wire = 4901

\* C19: a supported chain id written in its wire form ("0x" and hexadecimal
\* digits) parses back to the same chain id, and the wire form of every
\* number that is not a supported chain id is rejected with invalid params.
C19_ChainIdRoundTrip ==
    conv.kind = "chain_id"
    => /\ conv.input \in SupportedChains
          => /\ conv.parsed.ok
             /\ conv.parsed.val = conv.input
             /\ conv.input = 137 => conv.hex = <<"0", "x", "8", "9">>
             /\ conv.input = 5 => conv.hex = <<"0", "x", "5">>
             /\ conv.input = 1 => conv.hex = <<"0", "x", "1">>
       /\ conv.input \notin SupportedChains
          => /\ ~conv.parsed.ok
             /\ conv.parsed.err = JsonRpcErr(InvalidParams)

C19_Witness ==
    /\ conv.kind = "chain_id"
    /\ conv.input = PolygonMainnet
    /\ conv.hex = <<"0", "x", "8", "9">>
    /\ conv.parsed.ok
    /\ conv.parsed.val = PolygonMainnet


\* The methods whose handlers take neither the session nor the database.
UtilityMethods ==
    {"web3_clientVersion", "web3_sha3", "wallet_addEthereumChain"}

\* What the handler of a utility method returns for the parameters of the
\* request.
UtilityResult(rec) ==
    CASE rec.method = "web3_clientVersion" -> web3_client_version(rec).result
      [] rec.method = "web3_sha3" -> web3_sha3(rec).result
      [] rec.method = "wallet_addEthereumChain" ->
            wallet_add_ethereum_chain(rec).result

\* C20 as stated: web3_clientVersion, web3_sha3 and wallet_addEthereumChain
\* have no session precondition: received for an origin that has not been
\* added to the active account, they return what their handler gives for
\* the parameters (the identifier string, the hash, the add-chain outcome).
C20_NoSessionPrecondition ==
    Returned /\ last.parse = "ok" /\ last.method \in UtilityMethods
    /\ ~last.pre.dapp_added
    => last.result = UtilityResult(last)

\* C20, amended: web3_clientVersion, web3_sha3 and wallet_addEthereumChain
\* are dispatched behind the session check like every other method that is
\* not a bootstrap method. Received for an origin that has been added to the
\* active account they return what their handler gives for the parameters;
\* received for an origin that has not been added they fail with code 4100
\* and their handler is not run. In both cases the request has no effect of
\* its own: no provider call, no key fetch, no prompt, no notification.
C20_UtilitiesNeedSession ==
    Returned /\ last.parse = "ok" /\ last.method \in UtilityMethods
    => /\ Len(last.trace) = 0
       /\ IF last.pre.dapp_added
          THEN last.session.some /\ last.result = UtilityResult(last)
          ELSE last.result = JsonRpcErr(Unauthorized)

C20_Witness ==
    /\ Returned
    /\ last.parse = "ok"
    /\ last.method = "web3_clientVersion"
    /\ ~last.pre.dapp_added
    /\ last.result = JsonRpcErr(Unauthorized)
    /\ UtilityResult(last) = OkVal(<<"SealVault">>)


\* The step in which a request of wallet_addEthereumChain returns.
C21_AddChainStep ==
    ~Returned /\ Returned' /\ last'.parse = "ok"
    /\ last'.method = "wallet_addEthereumChain"
    => /\ db'.addresses = db.addresses
       /\ db'.chains = db.chains
       /\ db'.keys = db.keys
       /\ db'.dapps = db.dapps
       /\ db'.active_account = db.active_account
       /\ db.sessions \subseteq db'.sessions
       /\ last'.pre.session_row \/ ~last'.pre.dapp_added => db' = db
       /\ transfers' = transfers

\* A request of wallet_addEthereumChain that has returned.
C21_AddChainState ==
    Returned /\ last.parse = "ok" /\ last.method = "wallet_addEthereumChain"
    => /\ Len(last.trace) = 0
       /\ last.session.some /\ ~BadChainId(last.params.chain)
          => last.result = OkVal(<<>>)
       /\ last.session.some /\ BadChainId(last.params.chain)
          => last.result = JsonRpcErr(InvalidParams)
       /\ ~last.session.some => last.result = JsonRpcErr(Unauthorized)

NewSessions == {s \in db'.sessions : \A t \in db.sessions : t.id # s.id}

\* A request is received in the step.
Receives == nreq' # nreq

\* The request that is received in the step, as it is after the step.
Received ==
    IF last'.id = nreq' THEN last'
    ELSE CHOOSE q \in {req'[r] : r \in Slots} : q.id = nreq'

\* C22 as stated: a step creates a session row only if it is a step of a
\* request of eth_requestAccounts or eth_accounts.
C22_OnlyBootstrapCreatesSession ==
    [][NewSessions # {}
       => \/ Receives /\ Received.method \in BootstrapMethods
          \/ \E r \in Slots :
                Moved(r) /\ req[r].method \in BootstrapMethods]_vars

\* C22, amended: a session row is created in two places only. The approval
\* flow of a bootstrap request creates the session of the approving account
\* in add_new_dapp; and the session resolver, which runs when a request of
\* any method is received, creates the local session of the active account
\* when the dapp has been added to that account and no session row exists.
\* A request of another method received for a dapp that has not been added
\* to the active account creates no session.
C22_SessionCreatedByBootstrapOrResolver ==
    [][NewSessions # {}
       => \/ /\ Receives
             /\ Received.parse = "ok"
             /\ Received.pre.dapp_added /\ ~Received.pre.session_row
             /\ \A s \in NewSessions :
                   /\ s.created_by = "fetch_session_for_approved_dapp"
                   /\ s.account = Received.pre.account
                   /\ s.dapp = DappOf(Received)
          \/ \E r \in Slots :
                /\ req[r].pc = "add_new_dapp"
                /\ Moved(r)
                /\ req[r].method \in BootstrapMethods
                /\ \A s \in NewSessions :
                      /\ s.created_by = "add_new_dapp"
                      /\ s.account = req[r].approval
                      /\ s.dapp = DappOf(req[r])]_vars

C22_Witness ==
    /\ Returned
    /\ last.method \notin BootstrapMethods
    /\ last.parse = "ok"
    /\ last.pre.dapp_added
    /\ ~last.pre.session_row
    /\ \E s \in db.sessions :
          /\ s.created_by = "fetch_session_for_approved_dapp"
          /\ s.account = last.pre.account
          /\ s.dapp = DappOf(last)
          /\ s.id = last.session.id


\* Every call of approve_dapp in the trace was made by a bootstrap request
\* for an account that had no session with the dapp when it was called.
ApprovalsWithoutSession(rec) ==
    \A i \in 1..Len(rec.trace) :
        rec.trace[i].ev = "approve_dapp"
        => /\ rec.method \in BootstrapMethods
           /\ ~rec.trace[i].arg.session_row

\* C23: approve_dapp is called only by a request of a bootstrap method, and
\* when it is called for account A and the dapp, no session exists for
\* (A, dapp), whatever other requests and changes of the active account
\* happened since the request was received.
C23_ApprovalOnlyWithoutSession ==
    /\ \A r \in Slots : ApprovalsWithoutSession(req[r])
    /\ ApprovalsWithoutSession(last)


\* The account of the approval descriptor of the request: the account_id of
\* its call of approve_dapp.
ApprovedAccounts(rec) ==
    {rec.trace[i].arg.account_id :
        i \in {j \in 1..Len(rec.trace) : rec.trace[j].ev = "approve_dapp"}}

\* Between approve_dapp and add_new_dapp the request carries the account of
\* its approval descriptor.
C24_ApprovalState ==
    \A r \in Slots :
        req[r].pc \in {"approving", "add_new_dapp"}
        => ApprovedAccounts(req[r]) = {req[r].approval}

\* The transaction of add_new_dapp creates rows of the approved account
\* only.
C24_AddNewDappStep ==
    \A r \in Slots :
        req[r].pc = "add_new_dapp" /\ Moved(r)
        => /\ \A k \in db'.keys \ db.keys :
                 k.account = req[r].approval /\ k.dapp = DappOf(req[r])
           /\ \A a \in db'.addresses \ db.addresses :
                 a.key = KeyId(req[r].approval, DappOf(req[r]))
           /\ \A s \in NewSessions :
                 s.account = req[r].approval /\ s.dapp = DappOf(req[r])
           /\ req'[r].pc = "transfer"
              => /\ NewSessions # {}
                 /\ db'.keys # db.keys
                 /\ req'[r].session.account_id = req[r].approval
           /\ db'.active_account = db.active_account

\* C24: the key, address and session that add_new_dapp creates belong to
\* the account of the approval descriptor, also when another account is the
\* active one when the transaction runs; nothing is created for the active
\* account when it differs.
C24_CreatedForApprovedAccount ==
    []C24_ApprovalState /\ [][C24_AddNewDappStep]_vars

C24_Witness ==
    \E r \in Slots :
        /\ req[r].pc = "transfer"
        /\ Committed(req[r])
        /\ db.active_account # req[r].approval
        /\ SessionsOf(db, req[r].approval, DappOf(req[r])) # {}
        /\ ~\E k \in db.keys :
              k.account = db.active_account /\ k.dapp = DappOf(req[r])


\* The key of the address a session row is bound to.
KeyOfSession(d, s) == fetch_key_id(d, s.address_id)

\* The addresses a key has on a chain.
AddressesOn(d, key, chain_id) ==
    {a \in d.addresses : a.key = key /\ a.chain = chain_id}

\* At most one address per (key, chain), and every session is bound to an
\* address of the key of its account and dapp.
C25_OneAddressPerKeyAndChain ==
    /\ \A a \in db.addresses, b \in db.addresses :
          a.key = b.key /\ a.chain = b.chain => a = b
    /\ \A s \in db.sessions :
          /\ \E a \in db.addresses : a.id = s.address_id
          /\ KeyOfSession(db, s) = KeyId(s.account, s.dapp)

\* No step removes an address or changes the key of a session, and a switch
\* to a chain on which the key has an address binds the session to that
\* address and creates none.
C25_SwitchStep ==
    /\ db.addresses \subseteq db'.addresses
    /\ \A s \in db.sessions, t \in db'.sessions :
          s.id = t.id => KeyOfSession(db', t) = KeyOfSession(db, s)
    /\ \A r \in Slots :
          req[r].pc = "switch" /\ Moved(r)
          => \A s \in db.sessions, t \in db'.sessions :
                s.id = req[r].session.id /\ t.id = s.id
                => LET had == AddressesOn(db, KeyOfSession(db, s),
                                         req[r].new_chain_id)
                   IN /\ had # {} => /\ db'.addresses = db.addresses
                                     /\ t.address_id \in {a.id : a \in had}
                      /\ \E a \in db'.addresses :
                            /\ a.id = t.address_id
                            /\ a.chain = req[r].new_chain_id
                            /\ a.key = KeyOfSession(db, s)

\* C25: across successful switches a session keeps its signing key, a key
\* has at most one address per chain, and a switch back to a chain the
\* session was on binds it to the address it had there, creating none.
C25_SwitchKeepsKeyAndAddresses ==
    []C25_OneAddressPerKeyAndChain /\ [][C25_SwitchStep]_vars

\* A session, created on the default dapp chain and switched away from it,
\* has been switched back: it is bound to the first address of its key on
\* the default dapp chain and the key has one address per chain.
C25_Witness ==
    /\ Returned
    /\ last.method = "wallet_switchEthereumChain"
    /\ last.result.kind = "ok"
    /\ last.session.chain_id = EthMainnet
    /\ last.new_chain_id = default_dapp_chain
    /\ \E s \in db.sessions :
          /\ s.id = last.session.id
          /\ s.address_id = AddressId(KeyId(s.account, s.dapp),
                                      default_dapp_chain, 1)
          /\ Cardinality({a \in db.addresses :
                             a.key = KeyId(s.account, s.dapp)}) = 2


\* The effects that read a signing key from key storage or use one: the
\* key read, a signature, a transaction submission and the transfer of the
\* allotment from the wallet key.
SigningEffects ==
    {"fetch_eth_signing_key", "personal_sign", "send_transaction",
     "spawn_transfer"}

\* The trace has a signing effect at position from or later.
SignsFrom(trace, from) ==
    \E i \in from..Len(trace) : trace[i].ev \in SigningEffects

\* The dapp of the url has been added to the account: the persisted
\* approval of (account, dapp).
Approved(d, account_id, url) == fetch_id_for_account(d, url, account_id).some

\* The request as it is after a step of slot r.
After(r) == IF req'[r].pc = "idle" THEN last' ELSE req'[r]

\* A request that was declined, and a request of another method than the
\* bootstrap methods from an origin that was not added to the active
\* account, have no signing effect; a request that went through the
\* approval prompt has none before the commit of add_new_dapp.
C26_NoSigningState ==
    /\ \A rec \in {req[r] : r \in Slots} \cup {last} :
          /\ Declined(rec) => ~SignsFrom(rec.trace, 1)
          /\ Has(rec.trace, "approve_dapp") /\ SignsFrom(rec.trace, 1)
             => \E i \in 1..Len(rec.trace) :
                   /\ rec.trace[i].ev = "commit"
                   /\ rec.trace[i].arg = "add_new_dapp"
                   /\ ~\E j \in 1..i : rec.trace[j].ev \in SigningEffects
          /\ SignsFrom(rec.trace, 1)
             => /\ rec.session.some
                /\ Approved(db, rec.session.account_id, rec.url)
    /\ Returned /\ last.method \notin BootstrapMethods
       /\ ~last.pre.dapp_added
       => ~SignsFrom(last.trace, 1)
    /\ Returned /\ last.parse # "ok" => ~SignsFrom(last.trace, 1)

\* A step that has a signing effect is a step of a request whose (account,
\* dapp) is approved in the database before the step.
C26_SigningStep ==
    /\ Receives /\ SignsFrom(Received.trace, 1)
       => /\ Received.session.some
          /\ Received.session.account_id = db.active_account
          /\ Approved(db, db.active_account, Received.url)
    /\ \A r \in Slots :
          req[r].pc # "idle" /\ Moved(r)
          /\ SignsFrom(After(r).trace, Len(req[r].trace) + 1)
          => /\ After(r).session.some
             /\ Approved(db, After(r).session.account_id, After(r).url)
             /\ SessionsOf(db, After(r).session.account_id,
                           DappOf(After(r))) # {}

\* C26: a signing key is read from key storage, a signature made or a
\* transaction submitted only in a step of a request whose dapp has been
\* added to the account of its session; a request from an origin that has
\* not been added, and a bootstrap request that was declined, never has
\* such an effect.
C26_SigningOnlyWhenApproved == []C26_NoSigningState /\ [][C26_SigningStep]_vars

C26_Witness ==
    /\ Returned
    /\ last.method = "personal_sign"
    /\ Has(last.trace, "fetch_eth_signing_key")
    /\ Has(last.trace, "personal_sign")
    /\ last.pre.dapp_added
    /\ Approved(db, last.session.account_id, last.url)
    /\ \E t \in transfers : t.to = last.session.address


\* A call of the keychain has returned to caller t.
ReturnedCall(t, op) == call[t].pc = "done" /\ call[t].op = op

\* C27: put_local_unlocked for a name that has an entry returns a fatal
\* error and leaves the map as it was, the entry of the name included; for
\* a name without an entry it stores the key material under the name and
\* changes no other entry, and get of the name then returns that material.
\* get reads the entry of the name and changes nothing.
C27_PutNeverOverwrites ==
    \A t \in Callers :
        /\ ReturnedCall(t, "put_local_unlocked")
           => IF call[t].pre[call[t].name] # NoKeyMaterial
              THEN /\ call[t].result
                        = Err(Error_Fatal("already exists", call[t].name))
                   /\ data = call[t].pre
              ELSE /\ call[t].result.ok
                   /\ data = [call[t].pre EXCEPT
                                ![call[t].name] = call[t].key.key_material]
                   /\ get(data, call[t].name) = Ok(call[t].key)
        /\ ReturnedCall(t, "get")
           => /\ data = call[t].pre
              /\ IF data[call[t].name] # NoKeyMaterial
                 THEN call[t].result
                        = Ok(KeyEncryptionKey(call[t].name,
                                              data[call[t].name]))
                 ELSE call[t].result
                        = Err(Error_Fatal("not found", call[t].name))

C27_Witness ==
    \E t \in Callers :
        /\ ReturnedCall(t, "put_local_unlocked")
        /\ ~call[t].result.ok
        /\ call[t].name = <<"k1">>
        /\ data[<<"k1">>] # NoKeyMaterial
        /\ data[<<"k1">>] # call[t].key.key_material
        /\ data[<<"k2">>] # NoKeyMaterial

\* C28: after a soft_delete that succeeded, get of the name fails with the
\* fatal error of a missing key and the key material the name had is stored
\* under the soft-delete name, every other entry being as before; a
\* soft_delete fails when the name has no entry or the soft-delete name has
\* one, and then the map is as it was before the call and a key that was
\* stored under the name is still returned by get.
C28_SoftDeleteRenames ==
    \A t \in Callers :
        ReturnedCall(t, "soft_delete")
        => LET name == call[t].name
               new_name == soft_delete_rename(name)
               pre == call[t].pre
           IN IF call[t].result.ok
              THEN /\ pre[name] # NoKeyMaterial
                   /\ pre[new_name] = NoKeyMaterial
                   /\ get(data, name) = Err(Error_Fatal("not found", name))
                   /\ data = [pre EXCEPT ![name] = NoKeyMaterial,
                                         ![new_name] = pre[name]]
              ELSE /\ data = pre
                   /\ pre[name] = NoKeyMaterial
                      => call[t].result
                            = Err(Error_Fatal("not found", name))
                   /\ pre[name] # NoKeyMaterial
                      => /\ pre[new_name] # NoKeyMaterial
                         /\ call[t].result
                               = Err(Error_Fatal("already exists", new_name))
                         /\ get(data, name)
                               = Ok(KeyEncryptionKey(name, pre[name]))

C28_Witness ==
    \E t \in Callers :
        /\ ReturnedCall(t, "soft_delete")
        /\ call[t].result.ok
        /\ call[t].name = <<"k1">>
        /\ data[<<"k1">>] = NoKeyMaterial
        /\ data[soft_delete_rename(<<"k1">>)] # NoKeyMaterial
        /\ data[<<"k2">>] # NoKeyMaterial


\* The key material that is stored in the map.
Stored(d) == {d[name] : name \in StoredNames} \ {NoKeyMaterial}

\* Between the locks of a soft_delete the key material it read is stored
\* under the name or under the soft-delete name.
C29_StoredBetweenLocks ==
    \A t \in Callers :
        call[t].pc \in {"put_local_unlocked", "remove"}
        => \/ data[call[t].name] = call[t].key.key_material
           \/ data[call[t].key.name] = call[t].key.key_material

\* The removal of a soft_delete removes nothing but the key material the
\* soft_delete has read, and no step of a call loses stored key material.
C29_RemoveStep ==
    /\ \A t \in Callers :
          call[t].pc = "remove" /\ call'[t].pc = "done"
          => data[call[t].name] \in {NoKeyMaterial,
                                      call[t].key.key_material}
    /\ Stored(data) \subseteq Stored(data')

\* C29: under any interleaving of get, put_local_unlocked and soft_delete
\* calls, between the locks of a soft_delete the key material it read is
\* stored under the name or under the soft-delete name, a soft_delete that
\* completes removes no key material that another caller has stored under
\* the name, and no key material is lost.
C29_SoftDeleteLosesNothing ==
    []C29_StoredBetweenLocks /\ [][C29_RemoveStep]_vars

====
